---- MODULE Spec2Model ----
(***************************************************************************)
(* A model of the Braille transliteration engine of the note server:       *)
(* class BrailleConverter (rule tables, textToBraille and its two          *)
(* contraction matchers, convertAcademicNotes, isValidBraille,             *)
(* getBrailleCharInfo).                                                    *)
(*                                                                         *)
(* A JavaScript string is the sequence of its UTF-16 code units, each a    *)
(* natural number: "the" is <<116, 104, 101>>, the cell U+2801 is 10241.   *)
(* Positions are 0-based as in the source; CharAt(text, i) is text[i].     *)
(***************************************************************************)
EXTENDS Integers, Sequences, FiniteSets, TLC

\* ------------------------------------------------------------------ bounds

\* Every string over Sigma of at most MaxLen code units is an input of
\* textToBraille (and likewise for isValidBraille).
MaxLen == 3

\* Every string over NoteSigma of at most MaxNoteLen code units is an input of
\* convertAcademicNotes, and so is every document of at most MaxLines of the
\* lines NoteLines.
MaxNoteLen == 3

MaxLines == 2

\* ------------------------------------------------------------- rule tables

\* this.BRAILLE_BASE = 0x2800
BRAILLE_BASE == 10240

\* ALPHABET_MAP: the letters a..z (97..122) and their cells.
ALPHABET_MAP ==
  <<
    [key |-> <<97>>, val |-> <<10241>>],   \* a
    [key |-> <<98>>, val |-> <<10243>>],   \* b
    [key |-> <<99>>, val |-> <<10249>>],   \* c
    [key |-> <<100>>, val |-> <<10265>>],   \* d
    [key |-> <<101>>, val |-> <<10257>>],   \* e
    [key |-> <<102>>, val |-> <<10251>>],   \* f
    [key |-> <<103>>, val |-> <<10267>>],   \* g
    [key |-> <<104>>, val |-> <<10259>>],   \* h
    [key |-> <<105>>, val |-> <<10250>>],   \* i
    [key |-> <<106>>, val |-> <<10266>>],   \* j
    [key |-> <<107>>, val |-> <<10245>>],   \* k
    [key |-> <<108>>, val |-> <<10247>>],   \* l
    [key |-> <<109>>, val |-> <<10253>>],   \* m
    [key |-> <<110>>, val |-> <<10269>>],   \* n
    [key |-> <<111>>, val |-> <<10261>>],   \* o
    [key |-> <<112>>, val |-> <<10255>>],   \* p
    [key |-> <<113>>, val |-> <<10271>>],   \* q
    [key |-> <<114>>, val |-> <<10263>>],   \* r
    [key |-> <<115>>, val |-> <<10254>>],   \* s
    [key |-> <<116>>, val |-> <<10270>>],   \* t
    [key |-> <<117>>, val |-> <<10277>>],   \* u
    [key |-> <<118>>, val |-> <<10279>>],   \* v
    [key |-> <<119>>, val |-> <<10298>>],   \* w
    [key |-> <<120>>, val |-> <<10285>>],   \* x
    [key |-> <<121>>, val |-> <<10301>>],   \* y
    [key |-> <<122>>, val |-> <<10293>>]   \* z
  >>

\* NUMBER_MAP: the digits 0..9 (48..57); their cells are those of j, a..i.
NUMBER_MAP ==
  <<
    [key |-> <<48>>, val |-> <<10266>>],   \* 0
    [key |-> <<49>>, val |-> <<10241>>],   \* 1
    [key |-> <<50>>, val |-> <<10243>>],   \* 2
    [key |-> <<51>>, val |-> <<10249>>],   \* 3
    [key |-> <<52>>, val |-> <<10265>>],   \* 4
    [key |-> <<53>>, val |-> <<10257>>],   \* 5
    [key |-> <<54>>, val |-> <<10251>>],   \* 6
    [key |-> <<55>>, val |-> <<10267>>],   \* 7
    [key |-> <<56>>, val |-> <<10259>>],   \* 8
    [key |-> <<57>>, val |-> <<10250>>]   \* 9
  >>

\* CONTRACTIONS: whole-word keys in the enumeration order of the object
\* literal ('have' is written twice there and is one key, at its first place).
CONTRACTIONS ==
  <<
    [key |-> <<97, 110, 100>>, val |-> <<10287>>],   \* and
    [key |-> <<102, 111, 114>>, val |-> <<10303>>],   \* for
    [key |-> <<111, 102>>, val |-> <<10295>>],   \* of
    [key |-> <<116, 104, 101>>, val |-> <<10286>>],   \* the
    [key |-> <<119, 105, 116, 104>>, val |-> <<10302>>],   \* with
    [key |-> <<121, 111, 117>>, val |-> <<10301>>],   \* you
    [key |-> <<97, 115>>, val |-> <<10293>>],   \* as
    [key |-> <<98, 117, 116>>, val |-> <<10243>>],   \* but
    [key |-> <<99, 97, 110>>, val |-> <<10249>>],   \* can
    [key |-> <<100, 111>>, val |-> <<10265>>],   \* do
    [key |-> <<101, 118, 101, 114, 121>>, val |-> <<10257>>],   \* every
    [key |-> <<102, 114, 111, 109>>, val |-> <<10251>>],   \* from
    [key |-> <<103, 111>>, val |-> <<10267>>],   \* go
    [key |-> <<104, 97, 118, 101>>, val |-> <<10259>>],   \* have
    [key |-> <<106, 117, 115, 116>>, val |-> <<10266>>],   \* just
    [key |-> <<107, 110, 111, 119, 108, 101, 100, 103, 101>>, val |-> <<10245>>],   \* knowledge
    [key |-> <<108, 105, 107, 101>>, val |-> <<10247>>],   \* like
    [key |-> <<109, 111, 114, 101>>, val |-> <<10253>>],   \* more
    [key |-> <<110, 111, 116>>, val |-> <<10269>>],   \* not
    [key |-> <<112, 101, 111, 112, 108, 101>>, val |-> <<10255>>],   \* people
    [key |-> <<113, 117, 105, 116, 101>>, val |-> <<10271>>],   \* quite
    [key |-> <<114, 97, 116, 104, 101, 114>>, val |-> <<10263>>],   \* rather
    [key |-> <<115, 111>>, val |-> <<10254>>],   \* so
    [key |-> <<116, 104, 97, 116>>, val |-> <<10270>>],   \* that
    [key |-> <<117, 115>>, val |-> <<10277>>],   \* us
    [key |-> <<118, 101, 114, 121>>, val |-> <<10279>>],   \* very
    [key |-> <<119, 105, 108, 108>>, val |-> <<10298>>],   \* will
    [key |-> <<105, 116>>, val |-> <<10285>>],   \* it
    [key |-> <<104, 105, 115>>, val |-> <<10259>>],   \* his
    [key |-> <<119, 97, 115>>, val |-> <<10298>>],   \* was
    [key |-> <<119, 101, 114, 101>>, val |-> <<10298>>],   \* were
    [key |-> <<97, 114, 101>>, val |-> <<10268>>],   \* are
    [key |-> <<98, 101>>, val |-> <<10246>>],   \* be
    [key |-> <<98, 101, 101, 110>>, val |-> <<10246>>],   \* been
    [key |-> <<104, 97, 100>>, val |-> <<10259>>],   \* had
    [key |-> <<104, 101, 114, 101>>, val |-> <<10259>>],   \* here
    [key |-> <<107, 110, 111, 119>>, val |-> <<10245>>],   \* know
    [key |-> <<108, 111, 114, 100>>, val |-> <<10247>>],   \* lord
    [key |-> <<109, 97, 121>>, val |-> <<10253>>],   \* may
    [key |-> <<110, 97, 109, 101>>, val |-> <<10269>>],   \* name
    [key |-> <<111, 110, 101>>, val |-> <<10261>>],   \* one
    [key |-> <<112, 97, 114, 116>>, val |-> <<10255>>],   \* part
    [key |-> <<113, 117, 101, 115, 116, 105, 111, 110>>, val |-> <<10271>>],   \* question
    [key |-> <<114, 105, 103, 104, 116>>, val |-> <<10263>>],   \* right
    [key |-> <<115, 111, 109, 101>>, val |-> <<10254>>],   \* some
    [key |-> <<116, 105, 109, 101>>, val |-> <<10270>>],   \* time
    [key |-> <<117, 110, 100, 101, 114>>, val |-> <<10277>>],   \* under
    [key |-> <<119, 111, 114, 107>>, val |-> <<10298>>],   \* work
    [key |-> <<121, 111, 117, 110, 103>>, val |-> <<10301>>]   \* young
  >>

\* PUNCTUATION_MAP: one to three cells per mark.
PUNCTUATION_MAP ==
  <<
    [key |-> <<46>>, val |-> <<10290>>],   \* .
    [key |-> <<44>>, val |-> <<10242>>],   \* ,
    [key |-> <<59>>, val |-> <<10246>>],   \* ;
    [key |-> <<58>>, val |-> <<10258>>],   \* :
    [key |-> <<33>>, val |-> <<10262>>],   \* !
    [key |-> <<63>>, val |-> <<10278>>],   \* ?
    [key |-> <<34>>, val |-> <<10278>>],   \* "
    [key |-> <<39>>, val |-> <<10244>>],   \* '
    [key |-> <<40>>, val |-> <<10256, 10275>>],   \* (
    [key |-> <<41>>, val |-> <<10256, 10268>>],   \* )
    [key |-> <<91>>, val |-> <<10280, 10275>>],   \* [
    [key |-> <<93>>, val |-> <<10280, 10268>>],   \* ]
    [key |-> <<123>>, val |-> <<10296, 10275>>],   \* {
    [key |-> <<125>>, val |-> <<10296, 10268>>],   \* }
    [key |-> <<45>>, val |-> <<10276>>],   \* -
    [key |-> <<8211>>, val |-> <<10272, 10276>>],   \* U+2013
    [key |-> <<8212>>, val |-> <<10256, 10272, 10276>>],   \* U+2014
    [key |-> <<47>>, val |-> <<10296, 10252>>],   \* /
    [key |-> <<92>>, val |-> <<10296, 10273>>],   \* \
    [key |-> <<42>>, val |-> <<10256, 10260>>],   \* *
    [key |-> <<38>>, val |-> <<10248, 10287>>],   \* &
    [key |-> <<64>>, val |-> <<10248, 10241>>],   \* @
    [key |-> <<35>>, val |-> <<10300>>],   \* #
    [key |-> <<36>>, val |-> <<10248, 10254>>],   \* $
    [key |-> <<37>>, val |-> <<10280, 10292>>],   \* %
    [key |-> <<94>>, val |-> <<10264, 10260>>],   \* ^
    [key |-> <<126>>, val |-> <<10264, 10289>>],   \* ~
    [key |-> <<96>>, val |-> <<10264, 10244>>],   \* `
    [key |-> <<124>>, val |-> <<10296, 10291>>],   \* |
    [key |-> <<60>>, val |-> <<10248, 10275>>],   \* <
    [key |-> <<62>>, val |-> <<10248, 10268>>],   \* >
    [key |-> <<61>>, val |-> <<10256, 10294>>],   \* =
    [key |-> <<43>>, val |-> <<10256, 10262>>],   \* +
    [key |-> <<95>>, val |-> <<10296, 10276>>]   \* _
  >>

\* LETTER_CONTRACTIONS: letter-group keys in enumeration order.
LETTER_CONTRACTIONS ==
  <<
    [key |-> <<99, 104>>, val |-> <<10273>>],   \* ch
    [key |-> <<103, 104>>, val |-> <<10275>>],   \* gh
    [key |-> <<115, 104>>, val |-> <<10281>>],   \* sh
    [key |-> <<116, 104>>, val |-> <<10297>>],   \* th
    [key |-> <<119, 104>>, val |-> <<10289>>],   \* wh
    [key |-> <<101, 100>>, val |-> <<10283>>],   \* ed
    [key |-> <<101, 114>>, val |-> <<10299>>],   \* er
    [key |-> <<111, 117>>, val |-> <<10291>>],   \* ou
    [key |-> <<111, 119>>, val |-> <<10282>>],   \* ow
    [key |-> <<115, 116>>, val |-> <<10252>>],   \* st
    [key |-> <<97, 114>>, val |-> <<10268>>],   \* ar
    [key |-> <<105, 110, 103>>, val |-> <<10284>>]   \* ing
  >>
\* INDICATORS: each indicator as the string the source holds.
INDICATORS ==
  [ CAPITAL   |-> <<10272>>,   \* U+2820
    NUMBER    |-> <<10300>>,   \* U+283C
    ITALIC    |-> <<10280>>,   \* U+2828
    BOLD      |-> <<10296>>,   \* U+2838
    UNDERLINE |-> <<10264>>,   \* U+2818
    EMPHASIS  |-> <<10252>>,   \* U+280C
    NEWLINE   |-> <<10>>,      \* '\n'
    SPACE     |-> <<32>> ]     \* ' '

\* table[key] of a JavaScript object: the entry's value, or undefined.
HasKey(table, key) == \E k \in 1..Len(table) : table[k].key = key

Lookup(table, key) == table[CHOOSE k \in 1..Len(table) : table[k].key = key].val

\* Object.keys(table): the keys in enumeration order.
ObjectKeys(table) == [k \in 1..Len(table) |-> table[k].key]

\* The fields of a converter as the constructor leaves them.
constructor ==
  [ BRAILLE_BASE        |-> BRAILLE_BASE,
    ALPHABET_MAP        |-> ALPHABET_MAP,
    NUMBER_MAP          |-> NUMBER_MAP,
    CONTRACTIONS        |-> CONTRACTIONS,
    PUNCTUATION_MAP     |-> PUNCTUATION_MAP,
    INDICATORS          |-> INDICATORS,
    LETTER_CONTRACTIONS |-> LETTER_CONTRACTIONS ]

\* -------------------------------------------------- characters and strings

\* /\s/ : the white space and line terminator code units of ECMAScript.
WhiteSpaceChars ==
  {9, 10, 11, 12, 13, 32, 160, 5760, 8232, 8233, 8239, 8287, 12288, 65279}
    \cup (8192..8202)

TestWhitespace(char) == char \in WhiteSpaceChars

\* /\d/ : '0'..'9' only (the pattern has no unicode flag).
TestDigit(char) == char \in 48..57

\* /[A-Z]/
TestUpper(char) == char \in 65..90

\* /[a-zA-Z]/
TestLetter(char) == char \in (65..90) \cup (97..122)

\* String.prototype.toLowerCase on one code unit, for Basic Latin, Latin-1 and
\* the Kelvin sign U+212A (whose lower case is the ASCII letter k); every other
\* code unit the model uses has no case.
LowerChar(c) ==
  IF c \in 65..90 THEN c + 32
  ELSE IF c \in (192..222) \ {215} THEN c + 32
  ELSE IF c = 8490 THEN 107
  ELSE c

toLowerCase(s) == [k \in 1..Len(s) |-> LowerChar(s[k])]

\* String.prototype.toUpperCase: U+00DF (sharp s) becomes "SS", U+00FF becomes
\* U+0178, U+00B5 becomes U+039C; otherwise one code unit per code unit.
UpperChar(c) ==
  IF c \in 97..122 THEN <<c - 32>>
  ELSE IF c \in (224..254) \ {247} THEN <<c - 32>>
  ELSE IF c = 223 THEN <<83, 83>>
  ELSE IF c = 255 THEN <<376>>
  ELSE IF c = 181 THEN <<924>>
  ELSE <<c>>

RECURSIVE toUpperCase(_)
toUpperCase(s) ==
  IF s = <<>> THEN <<>> ELSE UpperChar(Head(s)) \o toUpperCase(Tail(s))

\* text[i], 0-based.
CharAt(text, i) == text[i + 1]

\* text.slice(from, to) for 0 <= from <= to <= text.length.
Slice(text, from, to) == SubSeq(text, from + 1, to)

\* ----------------------------------------------------- contraction matchers

\* Object.keys(table).sort((a, b) => b.length - a.length): longest keys first,
\* keys of one length in enumeration order (Array.prototype.sort is stable).
RECURSIVE KeysOfLengthDown(_, _)
KeysOfLengthDown(keys, n) ==
  IF n = 0 THEN <<>>
  ELSE SelectSeq(keys, LAMBDA k : Len(k) = n) \o KeysOfLengthDown(keys, n - 1)

MaxKeyLength(keys) ==
  CHOOSE n \in 0..100 :
    /\ \A k \in 1..Len(keys) : Len(keys[k]) <= n
    /\ \/ n = 0
       \/ \E k \in 1..Len(keys) : Len(keys[k]) = n

\* The keys left in the order Object.keys gives them: no sort.
SortNone(keys) == keys

SortLongestFirst(keys) == KeysOfLengthDown(keys, MaxKeyLength(keys))

sortedWordContractions == SortLongestFirst(ObjectKeys(CONTRACTIONS))

sortedLetterContractions == SortLongestFirst(ObjectKeys(LETTER_CONTRACTIONS))

\* The matchers return an object {braille, length} or null.
NullMatch == [found |-> FALSE, braille |-> <<>>, length |-> 0]

Match(braille, length) == [found |-> TRUE, braille |-> braille, length |-> length]

\* WordMatches without the word-boundary test at the end of the match.
WordMatchesNoEndBoundary(text, pos, word) ==
  LET endPos == pos + Len(word) IN
    /\ endPos <= Len(text)
    /\ toLowerCase(Slice(text, pos, endPos)) = word

\* The test of one candidate in the loop of findWordContraction.
WordMatches(text, pos, word) ==
  LET endPos == pos + Len(word) IN
    /\ endPos <= Len(text)
    /\ toLowerCase(Slice(text, pos, endPos)) = word
    /\ \/ endPos = Len(text)
       \/ ~TestLetter(CharAt(text, endPos))

\* findWordContraction comparing the slice itself, not its lower case.
findWordContractionCaseSensitive(text, pos) ==
  IF pos > 0 /\ TestLetter(CharAt(text, pos - 1)) THEN NullMatch
  ELSE
    LET hits == {k \in 1..Len(sortedWordContractions) :
                   LET word   == sortedWordContractions[k]
                       endPos == pos + Len(word)
                   IN  /\ endPos <= Len(text)
                       /\ Slice(text, pos, endPos) = word
                       /\ \/ endPos = Len(text)
                          \/ ~TestLetter(CharAt(text, endPos))}
    IN  IF hits = {} THEN NullMatch
        ELSE LET word == sortedWordContractions[CHOOSE k \in hits : \A j \in hits : k <= j]
             IN  Match(Lookup(CONTRACTIONS, word), Len(word))

\* findWordContraction without the word-boundary test at the end of the match.
findWordContractionNoEndBoundary(text, pos) ==
  IF pos > 0 /\ TestLetter(CharAt(text, pos - 1)) THEN NullMatch
  ELSE
    LET hits == {k \in 1..Len(sortedWordContractions) :
                   LET word == sortedWordContractions[k] IN
                     /\ pos + Len(word) <= Len(text)
                     /\ toLowerCase(Slice(text, pos, pos + Len(word))) = word}
    IN  IF hits = {} THEN NullMatch
        ELSE LET word == sortedWordContractions[CHOOSE k \in hits : \A j \in hits : k <= j]
             IN  Match(Lookup(CONTRACTIONS, word), Len(word))

\* findWordContraction without the test endPos <= text.length, comparing what is
\* left of the text with the start of the key.
findWordContractionPastEnd(text, pos) ==
  IF pos > 0 /\ TestLetter(CharAt(text, pos - 1)) THEN NullMatch
  ELSE
    LET hits == {k \in 1..Len(sortedWordContractions) :
                   LET word   == sortedWordContractions[k]
                       endPos == pos + Len(word)
                   IN  IF endPos <= Len(text) THEN WordMatches(text, pos, word)
                       ELSE toLowerCase(Slice(text, pos, Len(text)))
                              = SubSeq(word, 1, Len(text) - pos)}
    IN  IF hits = {} THEN NullMatch
        ELSE LET word == sortedWordContractions[CHOOSE k \in hits : \A j \in hits : k <= j]
             IN  Match(Lookup(CONTRACTIONS, word), Len(word))

findWordContraction(text, pos) ==
  IF pos > 0 /\ TestLetter(CharAt(text, pos - 1)) THEN NullMatch
  ELSE
    LET hits == {k \in 1..Len(sortedWordContractions) :
                   WordMatches(text, pos, sortedWordContractions[k])}
    IN  IF hits = {} THEN NullMatch
        ELSE LET word == sortedWordContractions[CHOOSE k \in hits : \A j \in hits : k <= j]
             IN  Match(Lookup(CONTRACTIONS, word), Len(word))

\* The test of one candidate in the loop of findLetterContraction.
LettersMatch(text, pos, letters) ==
  LET endPos == pos + Len(letters) IN
    /\ endPos <= Len(text)
    /\ toLowerCase(Slice(text, pos, endPos)) = letters

\* findLetterContraction with the start-boundary test of findWordContraction.
findLetterContractionAtWordStart(text, pos) ==
  IF pos > 0 /\ TestLetter(CharAt(text, pos - 1)) THEN NullMatch
  ELSE
    LET hits == {k \in 1..Len(sortedLetterContractions) :
                   LettersMatch(text, pos, sortedLetterContractions[k])}
    IN  IF hits = {} THEN NullMatch
        ELSE LET letters == sortedLetterContractions[CHOOSE k \in hits : \A j \in hits : k <= j]
             IN  Match(Lookup(LETTER_CONTRACTIONS, letters), Len(letters))

findLetterContraction(text, pos) ==
  LET hits == {k \in 1..Len(sortedLetterContractions) :
                 LettersMatch(text, pos, sortedLetterContractions[k])}
  IN  IF hits = {} THEN NullMatch
      ELSE LET letters == sortedLetterContractions[CHOOSE k \in hits : \A j \in hits : k <= j]
           IN  Match(Lookup(LETTER_CONTRACTIONS, letters), Len(letters))

\* ------------------------------------------------ textToBraille: one iteration

\* What one iteration of the while loop does: the branch taken, the indicator
\* it emits first (capital or number indicator, or nothing), the cells that
\* follow, the advance of the cursor and the number-mode flag it leaves.
Unit(branch, prefix, cells, adv, inNum) ==
  [branch |-> branch, prefix |-> prefix, cells |-> cells, adv |-> adv, inNumber |-> inNum]

\* if (/\s/.test(char)) { result += SPACE; inNumber = false; i++ }
WhitespaceBranch == Unit("whitespace", <<>>, INDICATORS.SPACE, 1, FALSE)

\* if (char === '\n') { result += NEWLINE; inNumber = false; i++ }
NewlineBranch == Unit("newline", <<>>, INDICATORS.NEWLINE, 1, FALSE)

\* DigitBranch with the test of inNumber left out: an indicator per digit.
DigitBranchEveryDigit(char, inNum) ==
  Unit("digit", INDICATORS.NUMBER, Lookup(NUMBER_MAP, <<char>>), 1, TRUE)

\* if (/\d/.test(char)) { if (!inNumber) {result += NUMBER; inNumber = true}
\*                        result += NUMBER_MAP[char] || char; i++ }
DigitBranch(char, inNum) ==
  Unit("digit",
       IF ~inNum THEN INDICATORS.NUMBER ELSE <<>>,
       IF HasKey(NUMBER_MAP, <<char>>) THEN Lookup(NUMBER_MAP, <<char>>) ELSE <<char>>,
       1, TRUE)

\* PunctuationBranch copying the mark instead of its table entry.
PunctuationBranchRaw(char) == Unit("punctuation", <<>>, <<char>>, 1, FALSE)

\* PunctuationBranch adding the first cell of the entry only.
PunctuationBranchFirstCell(char) ==
  Unit("punctuation", <<>>, <<Lookup(PUNCTUATION_MAP, <<char>>)[1]>>, 1, FALSE)

\* if (PUNCTUATION_MAP[char]) { result += PUNCTUATION_MAP[char]; i++ }
PunctuationBranch(char) ==
  Unit("punctuation", <<>>, Lookup(PUNCTUATION_MAP, <<char>>), 1, FALSE)

\* ALPHABET_MAP[lowerChar] || char
LetterCell(char) ==
  LET lowerChar == toLowerCase(<<char>>) IN
    IF HasKey(ALPHABET_MAP, lowerChar) THEN Lookup(ALPHABET_MAP, lowerChar) ELSE <<char>>

\* if (/[A-Z]/.test(char)) result += CAPITAL
CapitalPrefix(char) == IF TestUpper(char) THEN INDICATORS.CAPITAL ELSE <<>>

\* LetterBranch trying the contractions whatever useGrade2 says.
LetterBranchAlwaysGrade2(text, i, useGrade2) ==
  LET char        == CharAt(text, i)
      wordMatch   == findWordContraction(text, i)
      letterMatch == findLetterContraction(text, i)
  IN  IF wordMatch.found
        THEN Unit("word", CapitalPrefix(char), wordMatch.braille, wordMatch.length, FALSE)
      ELSE IF letterMatch.found
        THEN Unit("letters", CapitalPrefix(char), letterMatch.braille, letterMatch.length, FALSE)
      ELSE Unit("letter", CapitalPrefix(char), LetterCell(char), 1, FALSE)

\* LetterBranch with a capital indicator for every upper-case letter a
\* contraction consumes.
LetterBranchCapitalPerLetter(text, i, useGrade2) ==
  LET char        == CharAt(text, i)
      wordMatch   == findWordContraction(text, i)
      letterMatch == findLetterContraction(text, i)
      capitals(n) == [j \in 1..Cardinality({q \in i..(i + n - 1) : TestUpper(CharAt(text, q))})
                        |-> INDICATORS.CAPITAL[1]]
  IN  IF useGrade2
        THEN IF wordMatch.found
               THEN Unit("word", capitals(wordMatch.length), wordMatch.braille,
                         wordMatch.length, FALSE)
             ELSE IF letterMatch.found
               THEN Unit("letters", capitals(letterMatch.length), letterMatch.braille,
                         letterMatch.length, FALSE)
             ELSE Unit("letter", CapitalPrefix(char), LetterCell(char), 1, FALSE)
        ELSE Unit("letter", CapitalPrefix(char), LetterCell(char), 1, FALSE)

\* The letter branch: the capital indicator, then in Grade 2 the word
\* contraction, else the letter-group contraction, else the letter's cell.
LetterBranch(text, i, useGrade2) ==
  LET char        == CharAt(text, i)
      wordMatch   == findWordContraction(text, i)
      letterMatch == findLetterContraction(text, i)
  IN  IF useGrade2
        THEN IF wordMatch.found
               THEN Unit("word", CapitalPrefix(char), wordMatch.braille, wordMatch.length, FALSE)
             ELSE IF letterMatch.found
               THEN Unit("letters", CapitalPrefix(char), letterMatch.braille, letterMatch.length, FALSE)
             ELSE Unit("letter", CapitalPrefix(char), LetterCell(char), 1, FALSE)
        ELSE Unit("letter", CapitalPrefix(char), LetterCell(char), 1, FALSE)

\* UnknownBranch advancing without copying the character.
UnknownBranchDropped(char) == Unit("unknown", <<>>, <<>>, 1, FALSE)

\* else { result += char; i++ }
UnknownBranch(char) == Unit("unknown", <<>>, <<char>>, 1, FALSE)

\* The body of the while loop at cursor i: the first branch whose test passes.
ScanStep(text, i, inNum, useGrade2) ==
  LET char == CharAt(text, i) IN
    IF TestWhitespace(char) THEN WhitespaceBranch
    ELSE IF char = 10 THEN NewlineBranch
    ELSE IF TestDigit(char) THEN DigitBranch(char, inNum)
    ELSE IF HasKey(PUNCTUATION_MAP, <<char>>) THEN PunctuationBranch(char)
    ELSE IF TestLetter(char) THEN LetterBranch(text, i, useGrade2)
    ELSE UnknownBranch(char)

\* result += ... of one iteration.
Emitted(u) == u.prefix \o u.cells

\* The while loop from cursor i on, as the sequence of its iterations.
RECURSIVE ScanFrom(_, _, _, _)
ScanFrom(text, i, inNum, useGrade2) ==
  IF i >= Len(text) THEN <<>>
  ELSE LET u == ScanStep(text, i, inNum, useGrade2)
       IN  <<u>> \o ScanFrom(text, i + u.adv, u.inNumber, useGrade2)

RECURSIVE Concat(_)
Concat(us) == IF us = <<>> THEN <<>> ELSE Emitted(Head(us)) \o Concat(Tail(us))

\* ------------------------------------------------------- JavaScript values

\* A value is a record with its kind in the field type: "undefined", "null",
\* "boolean" (val), "number" (num), "string" (str, the code units), "array"
\* (items) or "object" (a plain object; length: its length property, or -1
\* when it has none).
Str(s) == [type |-> "string", str |-> s]

\* !v
Falsy(v) ==
  \/ v.type \in {"undefined", "null"}
  \/ v.type = "string" /\ v.str = <<>>
  \/ v.type = "number" /\ v.num = 0
  \/ v.type = "boolean" /\ ~v.val

\* typeof v (typeof null is "object")
TypeOf(v) == IF v.type \in {"null", "array"} THEN "object" ELSE v.type

\* The guard without its first test, !text.
RejectsInputTypeOnly(v) == TypeOf(v) # "string"

\* if (!text || typeof text !== 'string') return ''
RejectsInput(v) == Falsy(v) \/ TypeOf(v) # "string"

\* textToBraille(text, useGrade2) as a function of its arguments.
textToBraille(v, useGrade2) ==
  IF RejectsInput(v) THEN Str(<<>>)
  ELSE Str(Concat(ScanFrom(v.str, 0, FALSE, useGrade2)))

\* --------------------------------------------------- convertAcademicNotes

\* A line terminator: the '.' of a regular expression matches every other
\* code unit.
LineTerminator(c) == c \in {10, 13, 8232, 8233}

\* notes.split('\n')
RECURSIVE Split(_)
Split(s) ==
  IF \A k \in 1..Len(s) : s[k] # 10 THEN <<s>>
  ELSE LET n == CHOOSE k \in 1..Len(s) : s[k] = 10 /\ \A j \in 1..(k - 1) : s[j] # 10
       IN  <<SubSeq(s, 1, n - 1)>> \o Split(SubSeq(s, n + 1, Len(s)))

\* s.trim(): white space and line terminators removed at both ends.
Trim(s) ==
  LET keep == {k \in 1..Len(s) : ~TestWhitespace(s[k])} IN
    IF keep = {} THEN <<>>
    ELSE SubSeq(s, CHOOSE k \in keep : \A j \in keep : k <= j,
                   CHOOSE k \in keep : \A j \in keep : k >= j)

\* line.startsWith(prefix)
StartsWith(line, prefix) ==
  Len(line) >= Len(prefix) /\ SubSeq(line, 1, Len(prefix)) = prefix

\* line.substring(n)
Substring(line, n) == SubSeq(line, n + 1, Len(line))

\* this.textToBraille(s) for a string s, useGrade2 left to its default (true).
Braille(s) == textToBraille(Str(s), TRUE).str

\* The length of the match of ^\d+ in line.
RECURSIVE LeadingDigits(_)
LeadingDigits(line) ==
  IF line # <<>> /\ TestDigit(Head(line)) THEN 1 + LeadingDigits(Tail(line)) ELSE 0

\* /^\d+\.\s/.test(line)
NumberedTest(line) ==
  LET d == LeadingDigits(line) IN
    /\ d >= 1
    /\ Len(line) >= d + 2
    /\ line[d + 1] = 46
    /\ TestWhitespace(line[d + 2])

\* line.match(/^(\d+)\.\s(.+)$/): the groups, or null when (.+)$ cannot reach
\* the end of the line (nothing left, or a line terminator in it).
NumberedMatch(line) ==
  LET d == LeadingDigits(line) IN
    IF /\ NumberedTest(line)
       /\ Len(line) >= d + 3
       /\ \A k \in (d + 3)..Len(line) : ~LineTerminator(line[k])
      THEN [found |-> TRUE, number |-> SubSeq(line, 1, d), item |-> SubSeq(line, d + 3, Len(line))]
      ELSE [found |-> FALSE, number |-> <<>>, item |-> <<>>]

\* Where a match of /\*\*(.*?)\*\*/ that opens at a can close: the positions b
\* of a "**" with no line terminator between a + 2 and b.
BoldClosers(line, a) ==
  {b \in (a + 2)..(Len(line) - 2) :
     /\ CharAt(line, b) = 42
     /\ CharAt(line, b + 1) = 42
     /\ \A j \in (a + 2)..(b - 1) : ~LineTerminator(CharAt(line, j))}

\* line.replace(/\*\*(.*?)\*\*/g, (match, text) => BOLD + textToBraille(text) + BOLD)
\* from position a on: the leftmost opening that can close, its nearest closing.
RECURSIVE ReplaceBold(_, _)
ReplaceBold(line, a) ==
  IF a >= Len(line) THEN <<>>
  ELSE IF /\ a + 1 < Len(line)
          /\ CharAt(line, a) = 42
          /\ CharAt(line, a + 1) = 42
          /\ BoldClosers(line, a) # {}
    THEN LET b == CHOOSE x \in BoldClosers(line, a) : \A y \in BoldClosers(line, a) : x <= y
         IN  INDICATORS.BOLD \o Braille(Slice(line, a + 2, b)) \o INDICATORS.BOLD
               \o ReplaceBold(line, b + 2)
    ELSE <<CharAt(line, a)>> \o ReplaceBold(line, a + 1)

\* Where a match of /\*(.*?)\*/ that opens at a can close.
ItalicClosers(line, a) ==
  {b \in (a + 1)..(Len(line) - 1) :
     /\ CharAt(line, b) = 42
     /\ \A j \in (a + 1)..(b - 1) : ~LineTerminator(CharAt(line, j))}

\* line.replace(/\*(.*?)\*/g, (match, text) => ITALIC + textToBraille(text) + ITALIC)
RECURSIVE ReplaceItalic(_, _)
ReplaceItalic(line, a) ==
  IF a >= Len(line) THEN <<>>
  ELSE IF CharAt(line, a) = 42 /\ ItalicClosers(line, a) # {}
    THEN LET b == CHOOSE x \in ItalicClosers(line, a) : \A y \in ItalicClosers(line, a) : x <= y
         IN  INDICATORS.ITALIC \o Braille(Slice(line, a + 1, b)) \o INDICATORS.ITALIC
               \o ReplaceItalic(line, b + 1)
    ELSE <<CharAt(line, a)>> \o ReplaceItalic(line, a + 1)

\* What one line adds to result: the branch taken, the trimmed line, the text.
Segment(branch, line, out) == [branch |-> branch, line |-> line, out |-> out]

\* TitleSegment adding the upper-cased title itself, not its transliteration.
TitleSegmentUntransliterated(line) ==
  Segment("title", line, INDICATORS.CAPITAL \o toUpperCase(Substring(line, 2)) \o <<10, 10>>)

\* TitleSegment transliterating the title as it is written, not its upper case.
TitleSegmentNotUpperCased(line) ==
  Segment("title", line, INDICATORS.CAPITAL \o Braille(Substring(line, 2)) \o <<10, 10>>)

\* CAPITAL + textToBraille(title.toUpperCase()) + '\n\n'
TitleSegment(line) ==
  Segment("title", line,
          INDICATORS.CAPITAL \o Braille(toUpperCase(Substring(line, 2))) \o <<10, 10>>)

\* BOLD + textToBraille(heading) + '\n\n'
HeadingSegment(line) ==
  Segment("heading", line, INDICATORS.BOLD \o Braille(Substring(line, 3)) \o <<10, 10>>)

\* BulletSegment replacing the bold and italic spans of the item first.
BulletSegmentWithSpans(line) ==
  Segment("bullet", line,
          <<10296, 10290, 32>>
            \o Braille(ReplaceItalic(ReplaceBold(Substring(line, 2), 0), 0)) \o <<10>>)

\* U+2838 U+2832 ' ' + textToBraille(item) + '\n'
BulletSegment(line) ==
  Segment("bullet", line, <<10296, 10290, 32>> \o Braille(Substring(line, 2)) \o <<10>>)

\* NUMBER + textToBraille(number) + U+2832 ' ' + textToBraille(item) + '\n'
NumberedSegment(line) ==
  LET match == NumberedMatch(line) IN
    Segment("numbered", line,
            INDICATORS.NUMBER \o Braille(match.number) \o <<10290, 32>>
              \o Braille(match.item) \o <<10>>)

\* PlainSegment replacing the italic spans before the bold spans.
PlainSegmentItalicFirst(line) ==
  Segment("plain", line, Braille(ReplaceBold(ReplaceItalic(line, 0), 0)) \o <<10>>)

\* The bold spans, then the italic spans, then textToBraille(line) + '\n'
PlainSegment(line) ==
  Segment("plain", line, Braille(ReplaceItalic(ReplaceBold(line, 0), 0)) \o <<10>>)

\* if (!line) { result += '\n' }
BlankSegment(line) == Segment("blank", line, <<10>>)

\* LineBranch with a title test that looks at the '#' only.
LineBranchHashIsTitle(line) ==
  IF line = <<>> THEN "blank"
  ELSE IF StartsWith(line, <<35>>) THEN "title"
  ELSE IF StartsWith(line, <<35, 35, 32>>) THEN "heading"
  ELSE IF StartsWith(line, <<42, 32>>) \/ StartsWith(line, <<45, 32>>) THEN "bullet"
  ELSE IF NumberedTest(line) /\ NumberedMatch(line).found THEN "numbered"
  ELSE "plain"

\* The branch of the loop body a trimmed line takes: the first whose test passes.
LineBranch(line) ==
  IF line = <<>> THEN "blank"
  ELSE IF StartsWith(line, <<35, 32>>) THEN "title"
  ELSE IF StartsWith(line, <<35, 35, 32>>) THEN "heading"
  ELSE IF StartsWith(line, <<42, 32>>) \/ StartsWith(line, <<45, 32>>) THEN "bullet"
  ELSE IF NumberedTest(line) /\ NumberedMatch(line).found THEN "numbered"
  ELSE "plain"

\* The body of for (let line of lines).
LineSegment(raw) ==
  LET line   == Trim(raw)
      branch == LineBranch(line)
  IN  CASE branch = "blank"    -> BlankSegment(line)
        [] branch = "title"    -> TitleSegment(line)
        [] branch = "heading"  -> HeadingSegment(line)
        [] branch = "bullet"   -> BulletSegment(line)
        [] branch = "numbered" -> NumberedSegment(line)
        [] branch = "plain"    -> PlainSegment(line)

RECURSIVE ConcatSegments(_)
ConcatSegments(ls) ==
  IF ls = <<>> THEN <<>> ELSE LineSegment(Head(ls)).out \o ConcatSegments(Tail(ls))

\* convertAcademicNotes(notes) as a function of its argument.
convertAcademicNotes(v) ==
  IF RejectsInput(v) THEN Str(<<>>)
  ELSE Str(Trim(ConcatSegments(Split(v.str))))

\* ---------------------------------------------------------- isValidBraille

\* The pattern without \s and \n in its class: cells only.
BrailleRegexTestCellsOnly(s) == \A k \in 1..Len(s) : s[k] \in 10240..10495

\* /^[\u2800-\u28FF\s\n]*$/ : every code unit is a cell or white space.
BrailleRegexTest(s) ==
  \A k \in 1..Len(s) : s[k] \in 10240..10495 \/ TestWhitespace(s[k]) \/ s[k] = 10

\* isValidBraille(text): false for a falsy or non-string argument.
isValidBraille(v) == IF RejectsInput(v) THEN FALSE ELSE BrailleRegexTest(v.str)

\* ------------------------------------------------------ getBrailleCharInfo

\* One digit of Number.prototype.toString(radix): '0'..'9', 'a'..'z'.
DigitChar(d) == IF d < 10 THEN 48 + d ELSE 87 + d

\* n.toString(radix) for a natural number n.
RECURSIVE NumberToString(_, _)
NumberToString(n, radix) ==
  IF n < radix THEN <<DigitChar(n)>>
  ELSE Append(NumberToString(n \div radix, radix), DigitChar(n % radix))

\* padStart leaving the string as short as it is.
PadStartNone(s, width) == s

\* s.padStart(width, '0')
RECURSIVE PadStart(_, _)
PadStart(s, width) == IF Len(s) >= width THEN s ELSE PadStart(<<48>> \o s, width)

\* char.length: the length of a string or of an array, the length property of
\* an object (-1 stands for undefined, which is what every other value gives).
LengthOf(v) ==
  IF v.type = "string" THEN Len(v.str)
  ELSE IF v.type = "array" THEN Len(v.items)
  ELSE IF v.type = "object" THEN v.length
  ELSE -1

\* if (!char || char.length !== 1) return null
InfoRejects(v) == Falsy(v) \/ LengthOf(v) # 1

\* char.codePointAt is a function: only a string has the method.
HasCodePointAt(v) == v.type = "string"

\* The object returned for a cell.
CharInfo(char) ==
  LET codePoint == char[1]
      dots      == codePoint - 10240
  IN  [ type      |-> "info",
        character |-> char,
        unicode   |-> <<85, 43>> \o PadStart(toUpperCase(NumberToString(codePoint, 16)), 4),
        dots      |-> dots,
        binary    |-> PadStart(NumberToString(dots, 2), 8) ]

\* ------------------------------------------------------------------ inputs

Undefined == [type |-> "undefined"]

Null == [type |-> "null"]

Bool(b) == [type |-> "boolean", val |-> b]

Num(n) == [type |-> "number", num |-> n]

Arr(items) == [type |-> "array", items |-> items]

Obj(length) == [type |-> "object", length |-> length]

\* Arguments that are no strings: undefined, null, false, true, 0, 5, {},
\* {length: 0}, {length: 1}, [], [cell], [cell, cell].
NonStrings ==
  { Undefined, Null, Bool(FALSE), Bool(TRUE), Num(0), Num(5),
    Obj(-1), Obj(0), Obj(1),
    Arr(<<>>), Arr(<<Str(<<10241>>)>>), Arr(<<Str(<<10241>>), Str(<<10241>>)>>) }

\* The strings of at most n code units of S.
Strings(S, n) == UNION {[1..k -> S] : k \in 0..n}

\* The code units the inputs of textToBraille are built from: letters of both
\* cases (t, h, e spell the word key "the" and the group key "th"), a digit, a
\* space, a newline, a punctuation mark and a character with no table entry.
Sigma == {116, 104, 101, 84, 49, 32, 10, 46, 26085}

\* Inputs the properties of the engine are stated on.
Samples ==
  { <<49, 50, 51>>,                   \* "123"
    <<116, 104, 101, 114, 101>>,      \* "there"
    <<67, 97, 116>>,                  \* "Cat"
    <<26085, 26412, 35486>>,          \* U+65E5 U+672C U+8A9E
    <<49, 49, 46, 49, 116, 49>>,      \* "11.1t1"
    <<8490, 110, 111, 119>>,          \* U+212A "now"
    <<108, 105, 8490, 101>>,          \* "li" U+212A "e"
    <<116, 72, 69, 32, 84, 104, 101>>, \* "tHE The"
    <<97, 8212, 98, 40, 35>>,         \* "a" U+2014 "b(#"
    <<98, 101, 101, 110>>             \* "been"
  }

Inputs == Strings(Sigma, MaxLen) \cup Samples

\* The code units the enumerated notes are built from: the markers '#', '*',
\* '-', a space, a newline, a digit, a full stop, a letter and U+00E9 (a letter
\* outside ASCII with an upper case of its own).
NoteSigma == {35, 42, 45, 32, 10, 49, 46, 116, 233}

\* Lines of every kind the formatter tells apart.
NoteLines ==
  { <<35, 32, 84, 105, 116, 108, 101>>,         \* "# Title"
    <<35, 32, 233, 116>>,                       \* "# " U+00E9 "t"
    <<35, 35, 32, 116, 104>>,                   \* "## th"
    <<42, 32, 116>>,                            \* "* t"
    <<45, 32, 42, 42, 116, 42, 42>>,            \* "- **t**"
    <<49, 46, 32, 116>>,                        \* "1. t"
    <<49, 50, 46, 32, 105, 116>>,               \* "12. it"
    <<42, 42, 116, 42, 42, 32, 42, 116, 42>>,   \* "**t** *t*"
    <<42, 42, 42, 116, 42, 42, 42>>,            \* "***t***"
    <<66, 111, 100, 121>>,                      \* "Body"
    <<>>,                                       \* ""
    <<32, 116, 32>>,                            \* " t "
    <<26085, 42, 116>>,                         \* U+65E5 "*t"
    <<49, 46, 13, 116, 13, 116>>,               \* "1.\rt\rt"
    <<49, 46, 116>>,                            \* "1.t"
    <<42, 116, 32, 42, 42, 116, 42, 42, 32, 116, 42>>,  \* "*t **t** t*"
    <<42, 42, 42, 42, 116, 42, 42>>             \* "****t**"
  }

\* The notes of at most n of these lines.
RECURSIVE Documents(_)
Documents(n) ==
  IF n <= 1 THEN NoteLines
  ELSE NoteLines \cup {d \o <<10>> \o l : d \in Documents(n - 1), l \in NoteLines}

NoteInputs ==
  Strings(NoteSigma, MaxNoteLen) \cup Documents(MaxLines)
    \cup {<<35, 32, 84, 105, 116, 108, 101, 10, 10, 66, 111, 100, 121>>}  \* "# Title\n\nBody"

\* Strings of cells, white space and other characters for isValidBraille.
ValidatorSigma == {10239, 10240, 10241, 10495, 10496, 32, 10, 160, 116}

\* One and two code units around both ends of the Braille block, a letter and
\* a lone surrogate, for getBrailleCharInfo.
InfoSigma == {10239, 10240, 10241, 10495, 10496, 116, 55357}

\* Every cell of the Braille block, U+2800..U+28FF, as a one-character string.
AllCells == {<<p>> : p \in BRAILLE_BASE..(BRAILLE_BASE + 255)}

FunctionNames == {"textToBraille", "convertAcademicNotes", "isValidBraille", "getBrailleCharInfo"}

\* The arguments each function is called with.
Arguments(f) ==
  NonStrings \cup
    {Str(s) : s \in CASE f = "textToBraille"        -> Inputs
                      [] f = "convertAcademicNotes" -> NoteInputs
                      [] f = "isValidBraille"       -> Strings(ValidatorSigma, MaxLen)
                      [] f = "getBrailleCharInfo"   -> Strings(InfoSigma, 2) \cup AllCells}

\* A call: the method and its arguments.
Call(f, v, g2) == [fn |-> f, arg |-> v, useGrade2 |-> g2]

\* The calls made on a converter that has already served a call: "1" (which
\* ends with number mode on), "the" and the notes "1. t".
AgainCalls ==
  { Call("textToBraille", Str(<<49>>), TRUE),
    Call("textToBraille", Str(<<116, 104, 101>>), TRUE),
    Call("convertAcademicNotes", Str(<<49, 46, 32, 116>>), TRUE) }

\* ------------------------------------------------------------------- state

VARIABLES
  fn,         \* the function called
  arg,        \* its first argument, a value of any kind
  useGrade2,  \* textToBraille's second argument
  pc,         \* where the call stands: "call", "loop", "lines", "done", "thrown"
  text,       \* textToBraille: the argument, once it is known to be a string
  i,          \* textToBraille: the cursor
  inNumber,   \* textToBraille: the number-mode flag
  result,     \* the output built so far
  units,      \* history: the iterations of textToBraille, each with its cursor
  lines,      \* convertAcademicNotes: notes.split('\n')
  nextLine,   \* convertAcademicNotes: the index in lines of the line to come
  segments,   \* history: what each line processed added to result
  ret,        \* the value returned
  converter,  \* the fields of the converter the calls are made on
  lastScan,   \* history: cursor and number-mode flag at the end of the last scan
  seen,       \* history: what each call of AgainCalls returned when last made
  isDatabaseConnected,  \* index.js: the module's flag
  readyState,           \* mongoose.connection.readyState: 1 is connected
  mongoUri,             \* whether process.env.MONGO_URI is set
  requests              \* the requests in flight, each with its locals

scanVars == <<text, i, inNumber, units>>

notesVars == <<lines, nextLine, segments>>

serverVars == <<isDatabaseConnected, readyState, mongoUri, requests>>

converterVars ==
  <<fn, arg, useGrade2, pc, result, ret, scanVars, notesVars, converter, lastScan,
    seen>>

vars == <<converterVars, serverVars>>

\* ------------------------------------------------------------ the server

\* The requests the server handles at once.
NumRequests == 2

Requests == 1..NumRequests

\* A request slot with no request in it. The fields are the handler's locals:
\* english, hindi and braille (multiLanguageResults),
\* fallback (history: the branch of noteController.js:221 was taken),
\* dbConnected, saveFailed (history: saveNotes threw) and the responses sent.
IdleRequest ==
  [ route       |-> "none",
    pc          |-> "idle",
    english     |-> Undefined,
    hindi       |-> Undefined,
    braille     |-> Undefined,
    fallback    |-> FALSE,
    dbConnected |-> FALSE,
    saveFailed  |-> FALSE,
    responses   |-> <<>> ]

\* The module is loaded: let isDatabaseConnected = false, no connection made,
\* no request received.
ServerStart ==
  /\ isDatabaseConnected = FALSE
  /\ readyState = 0
  /\ requests = [r \in Requests |-> IdleRequest]



Init ==
  /\ fn \in FunctionNames
  /\ arg \in Arguments(fn)
  /\ useGrade2 \in (IF fn = "textToBraille" THEN BOOLEAN ELSE {TRUE})
  /\ pc = "call"
  /\ text = <<>>
  /\ i = 0
  /\ inNumber = FALSE
  /\ result = <<>>
  /\ units = <<>>
  /\ lines = <<>>
  /\ nextLine = 1
  /\ segments = <<>>
  /\ ret = Undefined
  /\ converter = constructor
  /\ lastScan = [i |-> 0, inNumber |-> FALSE]
  /\ seen = [c \in AgainCalls |-> Undefined]
  /\ ServerStart
  /\ mongoUri = TRUE

\* ------------------------------------------- textToBraille as a state machine

\* if (!text || typeof text !== 'string') return ''
ReturnEmpty ==
  /\ fn = "textToBraille"
  /\ pc = "call"
  /\ RejectsInput(arg)
  /\ pc' = "done"
  /\ ret' = Str(<<>>)
  /\ UNCHANGED <<serverVars, converter, lastScan, seen, fn, arg, useGrade2, result, scanVars, notesVars>>

\* BeginScan with the number-mode flag kept from the scan before, as a flag
\* held outside the call would be.
BeginScanKeepingNumberMode ==
  /\ fn = "textToBraille"
  /\ pc = "call"
  /\ ~RejectsInput(arg)
  /\ pc' = "loop"
  /\ text' = arg.str
  /\ result' = <<>>
  /\ i' = 0
  /\ inNumber' = lastScan.inNumber
  /\ UNCHANGED <<serverVars, converter, lastScan, seen, fn, arg, useGrade2, units, ret, notesVars>>

\* let result = ''; let i = 0; let inNumber = false
BeginScan ==
  /\ fn = "textToBraille"
  /\ pc = "call"
  /\ ~RejectsInput(arg)
  /\ pc' = "loop"
  /\ text' = arg.str
  /\ result' = <<>>
  /\ i' = 0
  /\ inNumber' = FALSE
  /\ UNCHANGED <<serverVars, converter, lastScan, seen, fn, arg, useGrade2, units, ret, notesVars>>

\* One iteration of while (i < text.length)
LoopBody ==
  /\ pc = "loop"
  /\ i < Len(text)
  /\ LET u == ScanStep(text, i, inNumber, useGrade2) IN
       /\ result' = result \o Emitted(u)
       /\ i' = i + u.adv
       /\ inNumber' = u.inNumber
       /\ units' = Append(units, [pos |-> i, unit |-> u])
  /\ UNCHANGED <<serverVars, converter, lastScan, seen, fn, arg, useGrade2, pc, text, ret, notesVars>>

\* return result
Return ==
  /\ pc = "loop"
  /\ ~(i < Len(text))
  /\ pc' = "done"
  /\ ret' = Str(result)
  /\ lastScan' = [i |-> i, inNumber |-> inNumber]
  /\ UNCHANGED <<serverVars, converter, seen, fn, arg, useGrade2, result, scanVars, notesVars>>

\* ------------------------------------ convertAcademicNotes as a state machine

\* if (!notes || typeof notes !== 'string') return ''
NotesReturnEmpty ==
  /\ fn = "convertAcademicNotes"
  /\ pc = "call"
  /\ RejectsInput(arg)
  /\ pc' = "done"
  /\ ret' = Str(<<>>)
  /\ UNCHANGED <<serverVars, converter, lastScan, seen, fn, arg, useGrade2, result, scanVars, notesVars>>

\* let result = ''; const lines = notes.split('\n')
SplitLines ==
  /\ fn = "convertAcademicNotes"
  /\ pc = "call"
  /\ ~RejectsInput(arg)
  /\ pc' = "lines"
  /\ result' = <<>>
  /\ lines' = Split(arg.str)
  /\ nextLine' = 1
  /\ UNCHANGED <<serverVars, converter, lastScan, seen, fn, arg, useGrade2, ret, scanVars, segments>>

\* line = line.trim() for the line the loop has reached.
CurrentLine == Trim(lines[nextLine])

\* The loop is at a line that takes the branch named.
AtLine(branch) ==
  /\ pc = "lines"
  /\ nextLine <= Len(lines)
  /\ LineBranch(CurrentLine) = branch

\* result += ...; continue
AddSegment(seg) ==
  /\ result' = result \o seg.out
  /\ segments' = Append(segments, seg)
  /\ nextLine' = nextLine + 1
  /\ UNCHANGED <<serverVars, converter, lastScan, seen, fn, arg, useGrade2, pc, ret, scanVars, lines>>

BlankLine == AtLine("blank") /\ AddSegment(BlankSegment(CurrentLine))

TitleLine == AtLine("title") /\ AddSegment(TitleSegment(CurrentLine))

HeadingLine == AtLine("heading") /\ AddSegment(HeadingSegment(CurrentLine))

BulletLine == AtLine("bullet") /\ AddSegment(BulletSegment(CurrentLine))

NumberedLine == AtLine("numbered") /\ AddSegment(NumberedSegment(CurrentLine))

PlainLine == AtLine("plain") /\ AddSegment(PlainSegment(CurrentLine))

\* NotesReturn returning result as it is, not trimmed.
NotesReturnUntrimmed ==
  /\ pc = "lines"
  /\ nextLine > Len(lines)
  /\ pc' = "done"
  /\ ret' = Str(result)
  /\ UNCHANGED <<serverVars, converter, lastScan, seen, fn, arg, useGrade2, result, scanVars, notesVars>>

\* return result.trim()
NotesReturn ==
  /\ pc = "lines"
  /\ nextLine > Len(lines)
  /\ pc' = "done"
  /\ ret' = Str(Trim(result))
  /\ UNCHANGED <<serverVars, converter, lastScan, seen, fn, arg, useGrade2, result, scanVars, notesVars>>

\* ------------------------------------------ isValidBraille, getBrailleCharInfo

\* isValidBraille(text)
Validate ==
  /\ fn = "isValidBraille"
  /\ pc = "call"
  /\ pc' = "done"
  /\ ret' = Bool(isValidBraille(arg))
  /\ UNCHANGED <<serverVars, converter, lastScan, seen, fn, arg, useGrade2, result, scanVars, notesVars>>

\* if (!char || char.length !== 1) return null
InfoReturnNull ==
  /\ fn = "getBrailleCharInfo"
  /\ pc = "call"
  /\ InfoRejects(arg)
  /\ pc' = "done"
  /\ ret' = Null
  /\ UNCHANGED <<serverVars, converter, lastScan, seen, fn, arg, useGrade2, result, scanVars, notesVars>>

\* const codePoint = char.codePointAt(0) on a value without the method:
\* TypeError, char.codePointAt is not a function.
InfoThrow ==
  /\ fn = "getBrailleCharInfo"
  /\ pc = "call"
  /\ ~InfoRejects(arg)
  /\ ~HasCodePointAt(arg)
  /\ pc' = "thrown"
  /\ ret' = [type |-> "TypeError"]
  /\ UNCHANGED <<serverVars, converter, lastScan, seen, fn, arg, useGrade2, result, scanVars, notesVars>>

\* if (codePoint >= 0x2800 && codePoint <= 0x28FF) return {...}; return null
InfoReturn ==
  /\ fn = "getBrailleCharInfo"
  /\ pc = "call"
  /\ ~InfoRejects(arg)
  /\ HasCodePointAt(arg)
  /\ pc' = "done"
  /\ ret' = IF arg.str[1] >= 10240 /\ arg.str[1] <= 10495 THEN CharInfo(arg.str) ELSE Null
  /\ UNCHANGED <<serverVars, converter, lastScan, seen, fn, arg, useGrade2, result, scanVars, notesVars>>

\* The call that stands in fn, arg and useGrade2.
ThisCall == Call(fn, arg, useGrade2)

\* A further call on the same converter once a call has returned or thrown:
\* the locals of the call before are gone, the converter is the same object.
CallAgain ==
  /\ pc \in {"done", "thrown"}
  /\ \E c \in AgainCalls :
       /\ fn' = c.fn
       /\ arg' = c.arg
       /\ useGrade2' = c.useGrade2
  /\ pc' = "call"
  /\ ret' = Undefined
  /\ text' = <<>>
  /\ i' = 0
  /\ inNumber' = FALSE
  /\ result' = <<>>
  /\ units' = <<>>
  /\ lines' = <<>>
  /\ nextLine' = 1
  /\ segments' = <<>>
  /\ seen' = IF pc = "done" /\ ThisCall \in AgainCalls
               THEN [seen EXCEPT ![ThisCall] = ret]
               ELSE seen
  /\ UNCHANGED <<serverVars, converter, lastScan>>

Next ==
  \/ ReturnEmpty \/ BeginScan \/ LoopBody \/ Return
  \/ NotesReturnEmpty \/ SplitLines
  \/ BlankLine \/ TitleLine \/ HeadingLine \/ BulletLine \/ NumberedLine \/ PlainLine
  \/ NotesReturn
  \/ Validate \/ InfoReturnNull \/ InfoThrow \/ InfoReturn
  \/ CallAgain

Spec == Init /\ [][Next]_vars

\* The state is well formed, and each machine returns what its function gives.
TypeOK ==
  /\ pc \in {"call", "loop", "lines", "done", "thrown"}
  /\ i \in 0..Len(text)
  /\ inNumber \in BOOLEAN
  /\ Len(units) <= Len(text)
  /\ nextLine \in 1..(Len(lines) + 1)
  /\ (pc = "done" /\ fn = "textToBraille") => ret = textToBraille(arg, useGrade2)
  /\ (pc = "done" /\ fn = "convertAcademicNotes") => ret = convertAcademicNotes(arg)

\* ------------------------------------------------- properties of the scan

\* textToBraille has returned.
Done == fn = "textToBraille" /\ pc = "done"

UnitAt(k) == units[k].unit

PosAt(k) == units[k].pos

\* Position p of the text has been the cursor of an iteration.
WasCursor(p) == \E k \in 1..Len(units) : PosAt(k) = p

\* The character before position p is absent or not a digit.
StartsDigitRun(p) == p = 0 \/ ~TestDigit(CharAt(text, p - 1))

\* C1: the digit branch emits the number indicator exactly once per maximal
\* run of ASCII digits, immediately before the cell of the run's first digit:
\* every digit of the text passed so far was the cursor of an iteration of the
\* digit branch, which emitted the digit's cell preceded by the indicator if
\* the digit starts a run (the character before it is absent or no digit) and
\* by nothing otherwise; textToBraille("123") is the indicator and three cells.
C1_NumberIndicatorOncePerRun ==
  /\ \A p \in 0..(i - 1) : TestDigit(CharAt(text, p)) => WasCursor(p)
  /\ \A k \in 1..Len(units) :
       LET p == PosAt(k)
           u == UnitAt(k)
       IN  /\ u.branch = "digit" <=> TestDigit(CharAt(text, p))
           /\ u.branch = "digit" =>
                /\ u.adv = 1
                /\ u.cells = Lookup(NUMBER_MAP, <<CharAt(text, p)>>)
                /\ u.prefix = IF StartsDigitRun(p) THEN INDICATORS.NUMBER ELSE <<>>
  /\ (Done /\ text = <<49, 50, 51>>) => ret = Str(<<10300, 10241, 10243, 10249>>)

\* C1 witness: "11.1t1" has been scanned: one indicator for "11", and a new one
\* after the full stop and after the letter.
C1_Witness ==
  /\ Done
  /\ text = <<49, 49, 46, 49, 116, 49>>
  /\ ret = Str(<<10300, 10241, 10241, 10290, 10300, 10241, 10270, 10300, 10241>>)

\* The character before position p is absent or no ASCII letter.
BoundaryBefore(p) == p = 0 \/ ~TestLetter(CharAt(text, p - 1))

\* The character at position p is absent or no ASCII letter.
BoundaryAt(p) == p >= Len(text) \/ ~TestLetter(CharAt(text, p))

\* The keys of the word table whose case-folded occurrence at p is a whole word.
WholeWordKeysAt(p) ==
  {k \in 1..Len(CONTRACTIONS) :
     LET word == CONTRACTIONS[k].key IN
       /\ p + Len(word) <= Len(text)
       /\ toLowerCase(Slice(text, p, p + Len(word))) = word
       /\ BoundaryBefore(p)
       /\ BoundaryAt(p + Len(word))}

C3_Grade1LetterByLetter ==
  ~useGrade2 =>
    /\ \A p \in 0..(i - 1) : TestLetter(CharAt(text, p)) => WasCursor(p)
    /\ \A k \in 1..Len(units) :
         LET c == CharAt(text, PosAt(k))
             u == UnitAt(k)
         IN  /\ u.branch \notin {"word", "letters"}
             /\ TestLetter(c) =>
                  /\ u.branch = "letter"
                  /\ u.adv = 1
                  /\ u.cells = Lookup(ALPHABET_MAP, <<LowerChar(c)>>)
                  /\ u.prefix = IF TestUpper(c) THEN INDICATORS.CAPITAL ELSE <<>>
    /\ (Done /\ text = <<116, 104, 101>>) => ret = Str(<<10270, 10259, 10257>>)

\* C3 witness: "The" scanned in Grade 1.
C3_Witness ==
  /\ Done
  /\ ~useGrade2
  /\ text = <<84, 104, 101>>
  /\ ret = Str(<<10272, 10270, 10259, 10257>>)

\* A string of ASCII letters, digits and spaces.
LettersDigitsSpaces(s) ==
  \A k \in 1..Len(s) : TestLetter(s[k]) \/ TestDigit(s[k]) \/ s[k] = 32

\* C4: capitalization never changes the unit chosen: for a text of ASCII
\* letters, digits and spaces, the scan of the text and the scan of its lower
\* case make the same iterations (same branch, same advance, same cells), and
\* an iteration of the text emits what that of the lower case emits, after a
\* capital indicator exactly when the character at its cursor is upper case;
\* "Cat" is the capital indicator and the cells of c, a, t.
C4_CaseOnlyAddsCapitalIndicator ==
  (Done /\ LettersDigitsSpaces(text)) =>
    LET lower == ScanFrom(toLowerCase(text), 0, FALSE, useGrade2) IN
      /\ Len(lower) = Len(units)
      /\ \A k \in 1..Len(units) :
           LET u == UnitAt(k)
               l == lower[k]
           IN  /\ u.branch = l.branch
               /\ u.adv = l.adv
               /\ u.cells = l.cells
               /\ u.prefix = IF TestUpper(CharAt(text, PosAt(k)))
                               THEN INDICATORS.CAPITAL \o l.prefix
                               ELSE l.prefix
      /\ ret = Str(Concat([k \in 1..Len(units) |-> UnitAt(k)]))
      /\ text = <<67, 97, 116>> => ret = Str(<<10272, 10249, 10241, 10270>>)

\* C4 witness: "tHE The" in Grade 2: the same two word contractions as
\* "the the", the second one after a capital indicator.
C4_Witness ==
  /\ Done
  /\ useGrade2
  /\ text = <<116, 72, 69, 32, 84, 104, 101>>
  /\ Len(units) = 3
  /\ UnitAt(1) = Unit("word", <<>>, <<10286>>, 3, FALSE)
  /\ UnitAt(3) = Unit("word", INDICATORS.CAPITAL, <<10286>>, 3, FALSE)
  /\ Concat(ScanFrom(toLowerCase(text), 0, FALSE, TRUE)) = <<10286, 32, 10286>>

\* C5 as stated: an iteration whose cursor holds a newline emits a newline (no
\* space) and leaves number mode; one whose cursor holds any other white space
\* character emits one space.
C5_NewlineEmitsNewline ==
  \A k \in 1..Len(units) :
    LET c == CharAt(text, PosAt(k))
        u == UnitAt(k)
    IN  /\ c = 10 => (Emitted(u) = <<10>> /\ ~u.inNumber)
        /\ (TestWhitespace(c) /\ c # 10) => (Emitted(u) = <<32>> /\ ~u.inNumber)

\* A string of characters with rule-table entries and white space only.
OnlyTableChars(s) ==
  \A k \in 1..Len(s) :
    \/ TestLetter(s[k])
    \/ TestDigit(s[k])
    \/ HasKey(PUNCTUATION_MAP, <<s[k]>>)
    \/ TestWhitespace(s[k])

\* C7 as stated: isValidBraille(textToBraille(s)) for every string s of
\* characters with table entries and white space.
C7_OutputIsValidBraille ==
  (Done /\ arg.type = "string" /\ OnlyTableChars(arg.str)) => isValidBraille(ret)

\* C7 amended: isValidBraille(textToBraille(s)) for every non-empty such s.
C7_OutputOfNonEmptyIsValidBraille ==
  (Done /\ arg.type = "string" /\ arg.str # <<>> /\ OnlyTableChars(arg.str)) =>
    isValidBraille(ret)

\* C7 witness: "T. " has been transliterated and the result validated.
C7_Witness ==
  /\ Done
  /\ text = <<84, 46, 32>>
  /\ ret = Str(<<10272, 10270, 10290, 32>>)
  /\ isValidBraille(ret)

\* A character of no branch but the last: no white space, no ASCII digit, no
\* key of the punctuation table, no ASCII letter.
NoRuleFor(c) ==
  /\ ~TestWhitespace(c)
  /\ ~TestDigit(c)
  /\ ~HasKey(PUNCTUATION_MAP, <<c>>)
  /\ ~TestLetter(c)

\* C8: a character with no rule is the cursor of an iteration that copies it
\* unchanged and advances by 1; the iterations follow one another through the
\* text and the result is what they emitted, in that order; the scan never
\* stops before it returns; the three characters U+65E5 U+672C U+8A9E come
\* back unchanged.
C8_UnknownCharacterCopied ==
  /\ \A p \in 0..(i - 1) : NoRuleFor(CharAt(text, p)) => WasCursor(p)
  /\ \A k \in 1..Len(units) :
       LET c == CharAt(text, PosAt(k))
           u == UnitAt(k)
       IN  /\ u.branch = "unknown" <=> NoRuleFor(c)
           /\ u.branch = "unknown" => (u.adv = 1 /\ Emitted(u) = <<c>>)
           /\ PosAt(k) = IF k = 1 THEN 0 ELSE PosAt(k - 1) + UnitAt(k - 1).adv
  /\ pc = "loop" => result = Concat([k \in 1..Len(units) |-> UnitAt(k)])
  /\ fn = "textToBraille" => (Done \/ ENABLED Next)
  /\ (Done /\ text = <<26085, 26412, 35486>>) => ret = Str(text)

\* C8 witness: "t" U+65E5 "1" scanned: the character stands between the cell of
\* t and the number indicator.
C8_Witness ==
  /\ Done
  /\ text = <<116, 26085, 49>>
  /\ ret = Str(<<10270, 26085, 10300, 10241>>)

\* ----------------------------------------- properties of the whole engine

\* textToBraille or convertAcademicNotes has returned a string for a string.
Transliterated ==
  /\ fn \in {"textToBraille", "convertAcademicNotes"}
  /\ pc = "done"
  /\ arg.type = "string"

\* The code units of a string.
Chars(s) == {s[k] : k \in 1..Len(s)}

\* The upper-cased texts of the title lines processed.
UpperCasedTitles ==
  {toUpperCase(Substring(segments[k].line, 2)) :
     k \in {j \in 1..Len(segments) : segments[j].branch = "title"}}

\* C6 as stated: every character of the string returned by textToBraille or
\* convertAcademicNotes is a cell of U+2800..U+28FF, a space, a newline, or a
\* character of the input that has no rule (no white space, no ASCII digit, no
\* punctuation key, no ASCII letter).
C6_OutputAlphabet ==
  Transliterated =>
    \A c \in Chars(ret.str) :
      \/ c \in 10240..10495
      \/ c = 32
      \/ c = 10
      \/ NoRuleFor(c) /\ c \in Chars(arg.str)

\* C6 amended: ... or a character with no rule that is a character of the
\* input or, for convertAcademicNotes, of the upper case of a title line's text.
C6_OutputAlphabetWithTitleCase ==
  Transliterated =>
    \A c \in Chars(ret.str) :
      \/ c \in 10240..10495
      \/ c = 32
      \/ c = 10
      \/ /\ NoRuleFor(c)
         /\ \/ c \in Chars(arg.str)
            \/ fn = "convertAcademicNotes" /\ \E t \in UpperCasedTitles : c \in Chars(t)

\* C6 witness: the title line "# " U+00E9 "t" has been formatted: U+00C9, the
\* upper case of a character with no rule, stands in the output.
C6_Witness ==
  /\ fn = "convertAcademicNotes"
  /\ pc = "done"
  /\ arg = Str(<<35, 32, 233, 116>>)
  /\ ret = Str(<<10272, 201, 10272, 10270>>)

\* An argument that is not a non-empty string.
NotANonEmptyString(v) == ~(v.type = "string" /\ Len(v.str) > 0)

\* C9: for an argument that is not a non-empty string, textToBraille and
\* convertAcademicNotes return the empty string and isValidBraille returns
\* false; nothing is thrown, and no loop iteration (the only place where the
\* rule tables are read) has run.
C9_InvalidInputGivesEmpty ==
  (fn \in {"textToBraille", "convertAcademicNotes", "isValidBraille"}
     /\ NotANonEmptyString(arg)) =>
    /\ pc \in {"call", "done"}
    /\ units = <<>>
    /\ segments = <<>>
    /\ pc = "done" =>
         ret = IF fn = "isValidBraille" THEN Bool(FALSE) ELSE Str(<<>>)

\* C9 witness: convertAcademicNotes(5) has returned the empty string.
C9_Witness ==
  /\ fn = "convertAcademicNotes"
  /\ arg = Num(5)
  /\ pc = "done"
  /\ ret = Str(<<>>)

\* A single character whose code point lies in [0x2800, 0x28FF].
SingleCell(v) ==
  /\ v.type = "string"
  /\ Len(v.str) = 1
  /\ v.str[1] \in 10240..10495

\* C10 as stated: for every input that is no single character of the Braille
\* block (a wrong length, a code point out of range, a value that is no string,
\* with a length property of 1 or not) getBrailleCharInfo returns null and
\* raises no error.
C10_InfoNullWithoutError ==
  (fn = "getBrailleCharInfo" /\ pc # "call" /\ ~SingleCell(arg)) =>
    (pc = "done" /\ ret = Null)

\* ------------------------------------------- properties of the inspector

\* The number a string of binary digits denotes.
RECURSIVE ParseBinary(_)
ParseBinary(b) ==
  IF b = <<>> THEN 0
  ELSE 2 * ParseBinary(SubSeq(b, 1, Len(b) - 1)) + (b[Len(b)] - 48)

\* getBrailleCharInfo has returned for a one-character string in U+2800..U+28FF.
InspectedCell ==
  /\ fn = "getBrailleCharInfo"
  /\ pc \in {"done", "thrown"}
  /\ arg.type = "string"
  /\ Len(arg.str) = 1
  /\ arg.str[1] \in 10240..10495

\* C11: for a single character with code point p in U+2800..U+28FF,
\* getBrailleCharInfo returns dots = p - 0x2800, a number in 0..255, and binary
\* = eight binary digits that denote dots, so that binary read in base 2 plus
\* 0x2800 is p again; U+2800 gives 0 and "00000000", U+2801 gives 1 and
\* "00000001".
C11_InfoDotsAndBinary ==
  InspectedCell =>
    LET p == arg.str[1] IN
      /\ pc = "done"
      /\ ret.type = "info"
      /\ ret.dots = p - 10240
      /\ ret.dots \in 0..255
      /\ Len(ret.binary) = 8
      /\ \A k \in 1..8 : ret.binary[k] \in {48, 49}
      /\ ParseBinary(ret.binary) + 10240 = p
      /\ p = 10240 => ret.dots = 0 /\ ret.binary = <<48, 48, 48, 48, 48, 48, 48, 48>>
      /\ p = 10241 => ret.dots = 1 /\ ret.binary = <<48, 48, 48, 48, 48, 48, 48, 49>>

\* C11 witness: U+2801 inspected, dots 1 and binary "00000001" returned.
C11_Witness ==
  /\ InspectedCell
  /\ arg.str = <<10241>>
  /\ ret.type = "info"
  /\ ret.dots = 1
  /\ ret.binary = <<48, 48, 48, 48, 48, 48, 48, 49>>

\* ------------------------------------------- properties of the validator

\* isValidBraille has returned.
Validated == fn = "isValidBraille" /\ pc = "done"

\* A character of the Braille block or a white-space character (newline included).
CellOrWhitespace(c) == c \in 10240..10495 \/ c \in WhiteSpaceChars

\* C12: isValidBraille(text) returns true if and only if text is a non-empty
\* string whose every character is in U+2800..U+28FF or is white space (newline
\* included); it returns false for the empty string, for a value that is no
\* string and whenever another character is present.
C12_ValidIffCellsAndWhitespace ==
  Validated =>
    /\ ret.type = "boolean"
    /\ ret.val <=> /\ arg.type = "string"
                   /\ arg.str # <<>>
                   /\ \A k \in 1..Len(arg.str) : CellOrWhitespace(arg.str[k])

\* C12 witness: a cell, a newline and a cell are accepted.
C12_Witness ==
  /\ Validated
  /\ arg = Str(<<10241, 10, 10495>>)
  /\ ret = Bool(TRUE)

\* C12 witness of the refusals: the empty string, a letter among cells, the
\* code unit after the block and a non-string are rejected.
C12_WitnessRejected ==
  /\ Validated
  /\ arg \in {Str(<<>>), Str(<<10241, 116>>), Str(<<10496>>), Arr(<<Str(<<10241>>)>>)}
  /\ ret = Bool(FALSE)

\* ------------------------------------------- properties of the matchers

\* The keys in the order the matcher of an iteration's branch tries them.
TriedOrder(branch) ==
  IF branch = "word" THEN sortedWordContractions ELSE sortedLetterContractions

\* The matcher's test of a key at position p: an eligible match.
Eligible(branch, p, key) ==
  IF branch = "word" THEN WordMatches(text, p, key) ELSE LettersMatch(text, p, key)

\* The key an iteration that advanced by adv from p has matched.
MatchedKey(p, adv) == toLowerCase(Slice(text, p, p + adv))

\* C13: within each contraction table the matcher tries keys longest first:
\* when an iteration emits a contraction, the key returned stands in the
\* matcher's order after keys that are at least as long and not eligible, and
\* no eligible key of the same table is longer than the key returned (of two
\* eligible keys the longer is the one returned).
C13_LongestKeyFirst ==
  useGrade2 =>
    \A k \in 1..Len(units) :
      LET p      == PosAt(k)
          u      == UnitAt(k)
          sorted == TriedOrder(u.branch)
      IN  u.branch \in {"word", "letters"} =>
            /\ \E idx \in 1..Len(sorted) :
                 /\ sorted[idx] = MatchedKey(p, u.adv)
                 /\ Eligible(u.branch, p, sorted[idx])
                 /\ \A j \in 1..(idx - 1) :
                      /\ Len(sorted[j]) >= Len(sorted[idx])
                      /\ ~Eligible(u.branch, p, sorted[j])
            /\ \A j \in 1..Len(sorted) :
                 Eligible(u.branch, p, sorted[j]) => Len(sorted[j]) <= u.adv

\* C13 witness: in "there" the group key "th" is returned at 0 after the longer
\* key "ing", the first in the matcher's order, was tried.
C13_Witness ==
  /\ Done
  /\ useGrade2
  /\ text = <<116, 104, 101, 114, 101>>
  /\ UnitAt(1).branch = "letters"
  /\ UnitAt(1).adv = 2
  /\ Len(sortedLetterContractions[1]) = 3
  /\ \E idx \in 2..Len(sortedLetterContractions) :
       sortedLetterContractions[idx] = MatchedKey(0, 2)

\* The keys of the letter-group table equal to the case-folded substring at p.
GroupKeysAt(p) ==
  {k \in 1..Len(LETTER_CONTRACTIONS) :
     LET letters == LETTER_CONTRACTIONS[k].key IN
       /\ p + Len(letters) <= Len(text)
       /\ toLowerCase(Slice(text, p, p + Len(letters))) = letters}

\* C14: in Grade 2, at a cursor on an ASCII letter where no whole-word
\* contraction matches, the iteration emits a letter-group contraction exactly
\* when the case-folded substring at the cursor is a key of the letter-group
\* table, whatever stands before or after it; it then emits the key's cell and
\* advances by the key's length, and otherwise emits the single letter's cell
\* and advances by 1.
C14_LetterGroupWithoutBoundaries ==
  useGrade2 =>
    \A k \in 1..Len(units) :
      LET p == PosAt(k)
          u == UnitAt(k)
          c == CharAt(text, p)
      IN  (TestLetter(c) /\ WholeWordKeysAt(p) = {}) =>
            /\ u.branch = "letters" <=> GroupKeysAt(p) # {}
            /\ u.branch = "letters" =>
                 \E j \in GroupKeysAt(p) :
                   /\ u.adv = Len(LETTER_CONTRACTIONS[j].key)
                   /\ u.cells = LETTER_CONTRACTIONS[j].val
            /\ u.branch # "letters" =>
                 /\ u.branch = "letter"
                 /\ u.adv = 1
                 /\ u.cells = Lookup(ALPHABET_MAP, <<LowerChar(c)>>)

\* C14 witness: in "there" the group "er" is emitted at cursor 2, with a letter
\* before it and a letter after it, and the single cell of e follows.
C14_Witness ==
  /\ Done
  /\ useGrade2
  /\ text = <<116, 104, 101, 114, 101>>
  /\ Len(units) = 3
  /\ PosAt(2) = 2
  /\ UnitAt(2).branch = "letters"
  /\ UnitAt(2).cells = <<10299>>
  /\ UnitAt(3).branch = "letter"
  /\ TestLetter(CharAt(text, 1)) /\ TestLetter(CharAt(text, 4))

\* ------------------------------------------- properties of the formatter

\* convertAcademicNotes has returned for a string it did not refuse.
Formatted ==
  /\ fn = "convertAcademicNotes"
  /\ pc = "done"
  /\ ~RejectsInput(arg)

\* The notes "# Title\n\nBody".
TitleAndBody == <<35, 32, 84, 105, 116, 108, 101, 10, 10, 66, 111, 100, 121>>

\* C15: a line "# X" adds the capital indicator, textToBraille of X in upper
\* case and two newlines; for "# Title\n\nBody" the result starts with the
\* capital indicator and the cells of "TITLE", a blank line follows, the cells
\* of "Body" end it, and the newline after them is removed by the final trim.
C15_TitleLine ==
  /\ fn = "convertAcademicNotes" =>
       \A k \in 1..Len(segments) :
         LET seg == segments[k] IN
           /\ seg.branch = "title" <=> StartsWith(seg.line, <<35, 32>>)
           /\ seg.branch = "title" =>
                seg.out = <<10272>>
                            \o textToBraille(Str(toUpperCase(Substring(seg.line, 2))), TRUE).str
                            \o <<10, 10>>
  /\ (Formatted /\ arg.str = TitleAndBody) =>
       LET title == textToBraille(Str(<<84, 73, 84, 76, 69>>), TRUE).str
           body  == textToBraille(Str(<<66, 111, 100, 121>>), TRUE).str
       IN  /\ title = <<10272, 10270, 10272, 10250, 10272, 10270, 10272, 10247, 10272, 10257>>
           /\ body = <<10272, 10243, 10261, 10265, 10301>>
           /\ result = <<10272>> \o title \o <<10, 10>> \o <<10>> \o body \o <<10>>
           /\ ret = Str(<<10272>> \o title \o <<10, 10>> \o <<10>> \o body)

\* C15 witness: "# Title\n\nBody" has been formatted; its three lines went
\* through the title, the blank and the plain branch.
C15_Witness ==
  /\ Formatted
  /\ arg.str = TitleAndBody
  /\ Len(segments) = 3
  /\ segments[1].branch = "title"
  /\ segments[2].branch = "blank"
  /\ segments[3].branch = "plain"
  /\ ret.str[1] = 10272
  /\ ret.str[Len(ret.str)] = 10301

\* The cells of the digits of a number, with no indicator.
RECURSIVE DigitCells(_)
DigitCells(number) ==
  IF number = <<>> THEN <<>>
  ELSE Lookup(NUMBER_MAP, <<Head(number)>>) \o DigitCells(Tail(number))

\* C16: a line "N. item" adds the number indicator, the digit cells of N, the
\* separator cell U+2832, a space, textToBraille(item) and one newline, so
\* that a single number indicator stands before the digit cells of N.
C16_NumberedLineSingleIndicator ==
  fn = "convertAcademicNotes" =>
    \A k \in 1..Len(segments) :
      LET seg == segments[k]
          d   == LeadingDigits(seg.line)
      IN  seg.branch = "numbered" =>
            seg.out = <<10300>> \o DigitCells(SubSeq(seg.line, 1, d)) \o <<10290, 32>>
                        \o textToBraille(Str(SubSeq(seg.line, d + 3, Len(seg.line))), TRUE).str
                        \o <<10>>

\* The cursor positions of a Grade-2 scan of text from cursor i on.
RECURSIVE CursorsFrom(_, _, _)
CursorsFrom(t, c, inNum) ==
  IF c >= Len(t) THEN {}
  ELSE LET u == ScanStep(t, c, inNum, TRUE)
       IN  {c} \cup CursorsFrom(t, c + u.adv, u.inNumber)

\* The matches of the bold pattern in line from position a on, each as the
\* positions of its opening and of its closing "**".
RECURSIVE BoldSpans(_, _)
BoldSpans(line, a) ==
  IF a >= Len(line) THEN {}
  ELSE IF /\ a + 1 < Len(line)
          /\ CharAt(line, a) = 42
          /\ CharAt(line, a + 1) = 42
          /\ BoldClosers(line, a) # {}
    THEN LET b == CHOOSE x \in BoldClosers(line, a) : \A y \in BoldClosers(line, a) : x <= y
         IN  {<<a, b>>} \cup BoldSpans(line, b + 2)
    ELSE BoldSpans(line, a + 1)

\* The positions of line that hold an asterisk.
Asterisks(line) == {p \in 0..(Len(line) - 1) : CharAt(line, p) = 42}

\* The asterisks of line inside a match of the bold pattern, delimiters included.
AsterisksInBold(line) ==
  {p \in Asterisks(line) : \E sp \in BoldSpans(line, 0) : sp[1] <= p /\ p <= sp[2] + 1}

\* C17: on a line that is no title, heading, bullet or numbered item the bold
\* spans are replaced first, then the italic spans, then the whole line is
\* transliterated and one newline appended; the last pass copies every cell
\* the substitutions produced, in place, and the asterisks left for the italic
\* pattern are those outside the matched bold spans.
C17_BoldThenItalicThenLine ==
  fn = "convertAcademicNotes" =>
    \A k \in 1..Len(segments) :
      LET seg       == segments[k]
          afterBold == ReplaceBold(seg.line, 0)
          mid       == ReplaceItalic(afterBold, 0)
      IN  seg.branch = "plain" =>
            /\ seg.out = textToBraille(Str(mid), TRUE).str \o <<10>>
            /\ \A p \in 0..(Len(mid) - 1) :
                 CharAt(mid, p) \in 10240..10495 =>
                   /\ p \in CursorsFrom(mid, 0, FALSE)
                   /\ Emitted(ScanStep(mid, p, FALSE, TRUE)) = <<CharAt(mid, p)>>
                   /\ ScanStep(mid, p, FALSE, TRUE).adv = 1
            /\ Cardinality(Asterisks(afterBold))
                 = Cardinality(Asterisks(seg.line) \ AsterisksInBold(seg.line))
            /\ seg.line = <<42, 42, 116, 42, 42, 32, 42, 116, 42>> =>
                 seg.out = <<10296, 10270, 10296, 32, 10280, 10270, 10280, 10>>
            /\ seg.line = <<42, 42, 42, 116, 42, 42, 42>> =>
                 seg.out = <<10296, 10256, 10260, 10270, 10296, 10256, 10260, 10>>

\* C17 witness: "**t** *t*" has been formatted: a bold span and an italic span,
\* their cells standing unchanged in the result.
C17_Witness ==
  /\ Formatted
  /\ arg.str = <<42, 42, 116, 42, 42, 32, 42, 116, 42>>
  /\ segments[1].branch = "plain"
  /\ ret = Str(<<10296, 10270, 10296, 32, 10280, 10270, 10280>>)

\* C18: a line starting with "* " or "- " gets bullet handling only: it adds
\* the glyphs U+2838 U+2832, a space, textToBraille of the rest of the line and
\* one newline; no bold or italic span is replaced in it: every asterisk of
\* the item is a cursor of the scan and emits the punctuation cells of '*'.
C18_BulletOnly ==
  fn = "convertAcademicNotes" =>
    \A k \in 1..Len(segments) :
      LET seg  == segments[k]
          item == Substring(seg.line, 2)
      IN  /\ seg.branch = "bullet" <=>
               (StartsWith(seg.line, <<42, 32>>) \/ StartsWith(seg.line, <<45, 32>>))
          /\ seg.branch = "bullet" =>
               /\ seg.out = <<10296, 10290, 32>> \o textToBraille(Str(item), TRUE).str \o <<10>>
               /\ \A p \in Asterisks(item) :
                    /\ p \in CursorsFrom(item, 0, FALSE)
                    /\ Emitted(ScanStep(item, p, FALSE, TRUE)) = <<10256, 10260>>
               /\ seg.line = <<45, 32, 42, 42, 116, 42, 42>> =>
                    seg.out = <<10296, 10290, 32, 10256, 10260, 10256, 10260, 10270,
                                10256, 10260, 10256, 10260, 10>>

\* C18 witness: "- **t**" has been formatted as a bullet, its asterisks as the
\* cells of '*'.
C18_Witness ==
  /\ Formatted
  /\ arg.str = <<45, 32, 42, 42, 116, 42, 42>>
  /\ segments[1].branch = "bullet"
  /\ ret = Str(<<10296, 10290, 32, 10256, 10260, 10256, 10260, 10270,
                 10256, 10260, 10256, 10260>>)

\* How many times the capital indicator U+2820 stands in a string.
CapitalIndicators(s) == Cardinality({k \in 1..Len(s) : s[k] = 10272})

\* C20: an iteration that emits a contraction (of a word or of a letter
\* group) emits the capital indicator once, before the contraction's cell, if
\* the first letter of the matched span is upper case, and not at all
\* otherwise: upper-case letters further in the span add no indicator, and an
\* upper-case first letter gives one though several letters are consumed.
C20_OneCapitalIndicatorPerContraction ==
  \A k \in 1..Len(units) :
    LET p   == PosAt(k)
        u   == UnitAt(k)
        out == Emitted(u)
    IN  u.branch \in {"word", "letters"} =>
          /\ u.adv >= 2
          /\ IF CharAt(text, p) \in 65..90
               THEN /\ CapitalIndicators(out) = 1
                    /\ out[1] = 10272
                    /\ Len(out) = 2
               ELSE /\ CapitalIndicators(out) = 0
                    /\ Len(out) = 1

\* C20 witness: "tHE The" scanned in Grade 2: "tHE" is the word cell with no
\* indicator, "The" the indicator and the word cell.
C20_Witness ==
  /\ Done
  /\ text = <<116, 72, 69, 32, 84, 104, 101>>
  /\ Len(units) = 3
  /\ UnitAt(1).branch = "word" /\ Emitted(UnitAt(1)) = <<10286>>
  /\ UnitAt(3).branch = "word" /\ Emitted(UnitAt(3)) = <<10272, 10286>>

\* ------------------------------------------- properties of a series of calls

\* What a call returns as a function of its arguments alone.
ResultOf(c) ==
  IF c.fn = "textToBraille" THEN textToBraille(c.arg, c.useGrade2)
  ELSE convertAcademicNotes(c.arg)

\* C19: the result of a textToBraille or convertAcademicNotes call depends
\* only on its arguments: no call changes a rule table or an indicator of the
\* converter, and whatever calls were made before, a call returns what its
\* arguments alone determine, and what the same call returned before; number
\* mode left on at the end of one scan does not suppress the number indicator
\* of the next.
C19_ResultDependsOnArgumentsOnly ==
  /\ converter = constructor
  /\ (fn = "textToBraille" /\ pc = "loop" /\ units = <<>>) =>
       /\ i = 0
       /\ ~inNumber
       /\ result = <<>>
  /\ (pc = "done" /\ fn \in {"textToBraille", "convertAcademicNotes"}) =>
       /\ ret = ResultOf(ThisCall)
       /\ (ThisCall \in AgainCalls /\ seen[ThisCall] # Undefined) => ret = seen[ThisCall]
       /\ (fn = "textToBraille" /\ arg = Str(<<49>>)) => ret = Str(<<10300, 10241>>)

\* C19 witness: "1" is being transliterated on a converter whose last scan
\* ended with number mode on, and the number indicator has been emitted before
\* the cell of the digit.
C19_Witness ==
  /\ ThisCall = Call("textToBraille", Str(<<49>>), TRUE)
  /\ pc = "loop"
  /\ lastScan.inNumber
  /\ i = 1
  /\ result = <<10300, 10241>>

\* ------------------------------------------- properties of the rule tables

\* The values of a rule table.
Values(table) == {table[k].val : k \in 1..Len(table)}

\* The values of the five rule tables of the converter.
RuleTableValues ==
  Values(converter.ALPHABET_MAP) \cup Values(converter.NUMBER_MAP)
    \cup Values(converter.CONTRACTIONS) \cup Values(converter.LETTER_CONTRACTIONS)
    \cup Values(converter.PUNCTUATION_MAP)

\* A string of at least one and at most n characters of U+2800..U+28FF.
CellString(s, n) ==
  /\ Len(s) \in 1..n
  /\ \A k \in 1..Len(s) : s[k] \in 10240..10495

\* What the iterations of the punctuation branch emitted: each the entry of
\* its character, of at most n cells.
PunctuationEmits(n) ==
  \A k \in 1..Len(units) :
    LET u == UnitAt(k)
        c == CharAt(text, PosAt(k))
    IN  u.branch = "punctuation" =>
          /\ Emitted(u) = Lookup(converter.PUNCTUATION_MAP, <<c>>)
          /\ Len(Emitted(u)) \in 1..n

\* C21 as stated: every value of every rule table is a string of one or two
\* characters of U+2800..U+28FF, and a punctuation character adds at most two
\* cells to the output.
C21_TableValuesOneOrTwoCells ==
  /\ \A v \in RuleTableValues : CellString(v, 2)
  /\ PunctuationEmits(2)

\* C21 amended: ... of one to three characters (the entry of U+2014, the em
\* dash, has three), and a punctuation character adds at most three cells.
C21_TableValuesUpToThreeCells ==
  /\ \A v \in RuleTableValues : CellString(v, 3)
  /\ \A k \in 1..Len(converter.PUNCTUATION_MAP) :
       Len(converter.PUNCTUATION_MAP[k].val) = 3 => converter.PUNCTUATION_MAP[k].key = <<8212>>
  /\ PunctuationEmits(3)

\* C21 witness: in "a" U+2014 "b(#" the em dash has added its three cells and
\* the parenthesis its two.
C21_Witness ==
  /\ Done
  /\ text = <<97, 8212, 98, 40, 35>>
  /\ Emitted(UnitAt(2)) = <<10256, 10272, 10276>>
  /\ Emitted(UnitAt(4)) = <<10256, 10275>>
  /\ Emitted(UnitAt(5)) = <<10300>>

\* ------------------------------------------- properties of the line loop

\* A numbered item: digits, a full stop, a white-space character and at least
\* one more character, none of them a line terminator.
IsNumberedItem(line) ==
  \E d \in 1..Len(line) :
    /\ \A k \in 1..d : line[k] \in 48..57
    /\ Len(line) >= d + 3
    /\ line[d + 1] = 46
    /\ line[d + 2] \in WhiteSpaceChars
    /\ \A k \in (d + 3)..Len(line) : line[k] \notin {10, 13, 8232, 8233}

\* The first kind, in the order of the loop body, that a trimmed line is of.
FirstKind(line) ==
  CASE line = <<>>                         -> "blank"
    [] Len(line) >= 2 /\ SubSeq(line, 1, 2) = <<35, 32>>     -> "title"
    [] Len(line) >= 3 /\ SubSeq(line, 1, 3) = <<35, 35, 32>> -> "heading"
    [] Len(line) >= 2 /\ SubSeq(line, 1, 2) \in {<<42, 32>>, <<45, 32>>} -> "bullet"
    [] Len(line) >= 1 /\ line[1] \in 48..57 /\ IsNumberedItem(line)      -> "numbered"
    [] OTHER                               -> "plain"

\* The outputs of the segments, one after the other.
RECURSIVE Outputs(_)
Outputs(segs) == IF segs = <<>> THEN <<>> ELSE Head(segs).out \o Outputs(Tail(segs))

\* C22: convertAcademicNotes takes the lines of its input in order and adds
\* one segment per line, made by the first matching branch among blank,
\* title, heading, bullet, numbered item and plain line; a line "## X" adds
\* the bold indicator, textToBraille(X) and two newlines, and is no title.
C22_OneSegmentPerLineInOrder ==
  (fn = "convertAcademicNotes" /\ pc \in {"lines", "done"} /\ ~RejectsInput(arg)) =>
    /\ lines = Split(arg.str)
    /\ Len(segments) = nextLine - 1
    /\ pc = "done" => Len(segments) = Len(lines)
    /\ result = Outputs(segments)
    /\ \A k \in 1..Len(segments) :
         LET seg == segments[k] IN
           /\ seg.line = Trim(lines[k])
           /\ seg.branch = FirstKind(seg.line)
           /\ (Len(seg.line) >= 3 /\ SubSeq(seg.line, 1, 3) = <<35, 35, 32>>) =>
                /\ seg.branch = "heading"
                /\ seg.out = <<10296>>
                               \o textToBraille(Str(SubSeq(seg.line, 4, Len(seg.line))), TRUE).str
                               \o <<10, 10>>

\* C22 witness: the notes "## th\n1. t" have been formatted: a heading segment
\* (bold indicator, the group cell of "th", two newlines), then a numbered one.
C22_Witness ==
  /\ Formatted
  /\ arg.str = <<35, 35, 32, 116, 104, 10, 49, 46, 32, 116>>
  /\ Len(segments) = 2
  /\ segments[1].branch = "heading"
  /\ segments[1].out = <<10296, 10297, 10, 10>>
  /\ segments[2].branch = "numbered"

\* A string with a character that is no white space.
HasInk(s) == \E k \in 1..Len(s) : s[k] \notin WhiteSpaceChars

\* Segment k is the segment of a blank line with a line that is not blank
\* somewhere before it and somewhere after it.
BlankBetween(k) ==
  /\ segments[k].line = <<>>
  /\ \E j \in 1..(k - 1) : segments[j].line # <<>>
  /\ \E m \in (k + 1)..Len(segments) : segments[m].line # <<>>

\* C23: the string convertAcademicNotes returns neither begins nor ends with
\* a white-space character; a blank line between lines that are not blank
\* adds exactly one newline, which the final trim cannot reach because the
\* lines around it left characters that are no white space; notes made of
\* blank lines only give the empty string.
C23_TrimmedResult ==
  Formatted =>
    /\ ret.type = "string"
    /\ ret.str # <<>> =>
         /\ ret.str[1] \notin WhiteSpaceChars
         /\ ret.str[Len(ret.str)] \notin WhiteSpaceChars
    /\ \E a, b \in 0..Len(result) :
         /\ a + Len(ret.str) + b = Len(result)
         /\ SubSeq(result, a + 1, a + Len(ret.str)) = ret.str
         /\ ~HasInk(SubSeq(result, 1, a))
         /\ ~HasInk(SubSeq(result, Len(result) - b + 1, Len(result)))
    /\ \A k \in 1..Len(segments) :
         /\ segments[k].line = <<>> => segments[k].out = <<10>>
         /\ segments[k].line # <<>> => HasInk(segments[k].out)
    /\ (\A k \in 1..Len(segments) : segments[k].line = <<>>) => ret = Str(<<>>)

\* C23 witness: "# Title\n\nBody" formatted: its blank line stands between the
\* title and the body and result ends with a newline that ret has lost.
C23_Witness ==
  /\ Formatted
  /\ arg.str = TitleAndBody
  /\ BlankBetween(2)
  /\ segments[2].out = <<10>>
  /\ result[Len(result)] = 10
  /\ Len(ret.str) = Len(result) - 1

\* C23 witness of notes made of blank lines only: " \n " gives "".
C23_WitnessBlankOnly ==
  /\ Formatted
  /\ arg.str = <<32, 10, 32>>
  /\ Len(segments) = 2
  /\ result = <<10, 10>>
  /\ ret = Str(<<>>)

\* ------------------------------------------- termination of the scan

\* The iterations made so far tile the text from 0 to the cursor: each starts
\* where the one before ended, advances by at least 1 and ends inside the text.
UnitsTileText ==
  /\ i <= Len(text)
  /\ \A k \in 1..Len(units) :
       /\ UnitAt(k).adv >= 1
       /\ PosAt(k) + UnitAt(k).adv <= Len(text)
       /\ PosAt(k) = IF k = 1 THEN 0 ELSE PosAt(k - 1) + UnitAt(k - 1).adv
  /\ i = IF units = <<>> THEN 0 ELSE PosAt(Len(units)) + UnitAt(Len(units)).adv

\* C24: textToBraille terminates on every string: every iteration of the loop
\* moves the cursor forward by at least 1 and never past text.length, so that
\* text.length - i falls at every iteration; the loop is left with the cursor
\* exactly at text.length, and every character of the text lies in the span of
\* exactly one iteration.
C24_ScanTerminates ==
  /\ [](fn = "textToBraille" =>
          /\ UnitsTileText
          /\ Done /\ ~RejectsInput(arg) =>
               /\ i = Len(text)
               /\ \A p \in 0..(Len(text) - 1) :
                    Cardinality({k \in 1..Len(units) :
                                   PosAt(k) <= p /\ p < PosAt(k) + UnitAt(k).adv}) = 1)
  /\ [][(fn = "textToBraille" /\ pc = "loop") =>
          \/ /\ pc' = "loop"
             /\ i' > i
             /\ i' <= Len(text)
             /\ Len(text) - i' < Len(text) - i
          \/ /\ pc' = "done"
             /\ i = Len(text)]_vars

\* C24 witness: "there" scanned in Grade 2 in three iterations that advance by
\* 2, 2 and 1 and end at text.length.
C24_Witness ==
  /\ Done
  /\ useGrade2
  /\ text = <<116, 104, 101, 114, 101>>
  /\ Len(units) = 3
  /\ UnitAt(1).adv = 2 /\ UnitAt(2).adv = 2 /\ UnitAt(3).adv = 1
  /\ i = 5

\* ------------------------------------------- properties of the tie-break

\* The keys of a matcher's table that are eligible at position p.
EligibleKeys(branch, p) ==
  LET sorted == TriedOrder(branch) IN
    {sorted[k] : k \in {j \in 1..Len(sorted) : Eligible(branch, p, sorted[j])}}

\* A sequence in reverse.
Reverse(s) == [k \in 1..Len(s) |-> s[Len(s) + 1 - k]]

\* The first eligible key at p when the keys are tried in the given order, or
\* the empty string when there is none.
FirstEligible(order, branch, p) ==
  LET hits == {k \in 1..Len(order) : Eligible(branch, p, order[k])} IN
    IF hits = {} THEN <<>> ELSE order[CHOOSE k \in hits : \A j \in hits : k <= j]

\* The order of trial of the word keys were the table enumerated in reverse.
reversedWordContractions == SortLongestFirst(Reverse(ObjectKeys(CONTRACTIONS)))

\* The same for the letter-group keys.
reversedLetterContractions == SortLongestFirst(Reverse(ObjectKeys(LETTER_CONTRACTIONS)))

ReverseEnumerated(branch) ==
  IF branch = "word" THEN reversedWordContractions ELSE reversedLetterContractions

\* C25: at any position of the text at most one key of the word table and at
\* most one key of the letter-group table is an eligible match, so that two
\* keys of equal length are never both eligible and each matcher finds the
\* same key whatever the order of enumeration of its table (stated of every
\* position of the text when the scan begins).
C25_AtMostOneEligibleKey ==
  (fn = "textToBraille" /\ pc = "loop" /\ units = <<>>) =>
    \A p \in 0..(Len(text) - 1) :
      \A branch \in {"word", "letters"} :
        /\ Cardinality(EligibleKeys(branch, p)) <= 1
        /\ FirstEligible(ReverseEnumerated(branch), branch, p)
             = FirstEligible(TriedOrder(branch), branch, p)

\* C25 witness: in "been" the word key "been" is the one eligible key at 0
\* ("be" fails its end boundary), and it is the key the iteration matched.
C25_Witness ==
  /\ Done
  /\ useGrade2
  /\ text = <<98, 101, 101, 110>>
  /\ EligibleKeys("word", 0) = {<<98, 101, 101, 110>>}
  /\ EligibleKeys("letters", 0) = {}
  /\ UnitAt(1).branch = "word"
  /\ UnitAt(1).adv = 4

\* ------------------------------------------- a second pass over the output

\* C26: textToBraille is idempotent: the string a call has returned, given to
\* textToBraille again in either grade, comes back unchanged: its cells, its
\* spaces and the characters copied through are each copied by a second pass.
C26_Idempotent ==
  (Done /\ ~RejectsInput(arg)) =>
    /\ \A g \in BOOLEAN : textToBraille(ret, g) = ret
    /\ \A k \in 1..Len(ret.str) :
         \/ ret.str[k] = 32
         \/ /\ ~TestWhitespace(ret.str[k])
            /\ ~TestDigit(ret.str[k])
            /\ ~TestLetter(ret.str[k])
            /\ ~HasKey(PUNCTUATION_MAP, <<ret.str[k]>>)

\* C26 witness: U+212A "now" gives the Kelvin sign, the cell of n and the cell
\* of the group "ow", and a second pass in Grade 2 or Grade 1 gives the same.
C26_Witness ==
  /\ Done
  /\ useGrade2
  /\ text = <<8490, 110, 111, 119>>
  /\ ret = Str(<<8490, 10269, 10282>>)
  /\ textToBraille(ret, TRUE) = ret
  /\ textToBraille(ret, FALSE) = ret

\* ================================================================ the server

\* ------------------------------------------- generateMultiLanguageNotes

\* const brailleResult = brailleConverter.convertAcademicNotes(englishResult)
BrailleResult(englishResult) == convertAcademicNotes(englishResult)

\* if (!brailleConverter.isValidBraille(brailleResult))
FallbackTaken(englishResult) == ~isValidBraille(BrailleResult(englishResult))

\* The braille field with no fallback: the formatted result whatever it is.
BrailleFieldNoFallback(englishResult) == BrailleResult(englishResult)

\* results.braille: the formatted result, or textToBraille(englishResult, true)
\* when the formatted result is not valid Braille; the fallback value is
\* stored as it is.
BrailleField(englishResult) ==
  IF FallbackTaken(englishResult)
    THEN textToBraille(englishResult, TRUE)
    ELSE BrailleResult(englishResult)

\* ---------------------------------------------------- requests and responses

\* req.body.type: absent, "text", "audio", "video".
TypeText == Str(<<116, 101, 120, 116>>)

TypeAudio == Str(<<97, 117, 100, 105, 111>>)

PostTypes == {Undefined, TypeText, TypeAudio, Str(<<118, 105, 100, 101, 111>>)}

\* req.body.content: absent, "", "t".
PostContents == {Undefined, Str(<<>>), Str(<<116>>)}

\* What the model answers for the English notes: "t", "# " U+00E9, " ".
EnglishNotes == {<<116>>, <<35, 32, 233>>, <<32>>}

\* What the model answers for the Hindi notes: U+0939.
HindiNotes == {<<2361>>}

\* savedNote._id
ObjectId == [type |-> "object", length |-> -1]

\* A response: the HTTP status code, the fields status, generated_notes and
\* note_id of its body (status "none" and undefined when the body has none),
\* and the field that tells the bodies apart.
Response(code, status, notes, note_id, note) ==
  [ code            |-> code,
    status          |-> status,
    generated_notes |-> notes,
    note_id         |-> note_id,
    note            |-> note ]

NoNotes == [english |-> Undefined, hindi |-> Undefined, braille |-> Undefined]

\* res.status(code).json({ error: ... })
ErrorResponse(code, note) == Response(code, "none", NoNotes, Undefined, note)

\* res.json({ status: "success", ..., generated_notes: {...}, note_id, ... })
SuccessResponse(q, note_id, note) ==
  Response(200, "success",
           [english |-> q.english, hindi |-> q.hindi, braille |-> q.braille],
           note_id, note)

\* res.json(body) on request q, which ends the handler.
Send(q, response) ==
  [q EXCEPT !.pc = "finished", !.responses = Append(@, response)]

\* Request r goes on as q; the flag, the connection and the converter are as
\* they were.
Handle(r, q) ==
  /\ requests' = [requests EXCEPT ![r] = q]
  /\ UNCHANGED <<isDatabaseConnected, readyState, mongoUri, converterVars>>

\* ------------------------------------------------------ POST /generate-notes

\* The request arrives: 400 when type or content is missing, 400 when type is
\* neither "text" nor "audio"; otherwise the language and the subject of the
\* content are detected.
ReceiveGenerateNotes(r) ==
  /\ requests[r].pc = "idle"
  /\ \E type \in PostTypes, content \in PostContents :
       LET q == [requests[r] EXCEPT !.route = "POST /generate-notes"]
       IN  Handle(r,
             IF Falsy(type) \/ Falsy(content)
               THEN Send(q, ErrorResponse(400, "missing"))
             ELSE IF type \notin {TypeText, TypeAudio}
               THEN Send(q, ErrorResponse(400, "invalid type"))
             ELSE [q EXCEPT !.pc = "prompt"])

\* await detectLanguage(content), await detectSubject(content): each catches
\* what it throws; then generateMultiLanguageNotes is called.
DetectLanguageAndSubject(r) ==
  /\ requests[r].pc = "prompt"
  /\ Handle(r, [requests[r] EXCEPT !.pc = "english"])

\* await generateSingleLanguageNotes(model, userPrompt, 'english', audioFile)
EnglishResolves(r) ==
  /\ requests[r].pc = "english"
  /\ \E e \in EnglishNotes :
       Handle(r, [requests[r] EXCEPT !.pc = "hindi", !.english = Str(e)])

\* The call throws: generateMultiLanguageNotes rethrows and the handler's
\* outer catch answers 500.
EnglishRejects(r) ==
  /\ requests[r].pc = "english"
  /\ Handle(r, Send(requests[r], ErrorResponse(500, "generation failed")))

\* await generateSingleLanguageNotes(model, hindiPrompt, 'hindi'), then the
\* Braille conversion, its validation and the return of the results.
HindiResolves(r) ==
  /\ requests[r].pc = "hindi"
  /\ \E h \in HindiNotes :
       Handle(r, [requests[r] EXCEPT
                    !.pc = "ensure",
                    !.hindi = Str(h),
                    !.braille = BrailleField(requests[r].english),
                    !.fallback = FallbackTaken(requests[r].english)])

HindiRejects(r) ==
  /\ requests[r].pc = "hindi"
  /\ Handle(r, Send(requests[r], ErrorResponse(500, "generation failed")))

\* --------------------------------------------------------------- /api/notes

\* The middleware of /api/notes: await ensureDBConnection().
ReceiveApiNotes(r) ==
  /\ requests[r].pc = "idle"
  /\ Handle(r, [requests[r] EXCEPT !.route = "/api/notes", !.pc = "ensure"])

\* if (!dbConnected) return res.status(503).json(...)
ApiNotesUnavailable(r) ==
  /\ requests[r].route = "/api/notes"
  /\ requests[r].pc = "ensured"
  /\ ~requests[r].dbConnected
  /\ Handle(r, Send(requests[r], ErrorResponse(503, "database not connected")))

\* next(): the router of routes/notes.js answers.
ApiNotesNext(r) ==
  /\ requests[r].route = "/api/notes"
  /\ requests[r].pc = "ensured"
  /\ requests[r].dbConnected
  /\ Handle(r, Send(requests[r], Response(200, "none", NoNotes, Undefined, "routed")))

\* ------------------------------------------- ensureDBConnection, connectDB

\* Request r is at await ensureDBConnection().
AtEnsure(r) == requests[r].pc = "ensure"

\* ensureDBConnection returns connected to request r.
Ensured(r, connected) ==
  requests' = [requests EXCEPT ![r].pc = "ensured", ![r].dbConnected = connected]

\* The flag is set: connectDB is not called.
EnsureFlagSet(r) ==
  /\ AtEnsure(r)
  /\ isDatabaseConnected
  /\ Ensured(r, TRUE)
  /\ UNCHANGED <<isDatabaseConnected, readyState, mongoUri, converterVars>>

\* connectDB: MONGO_URI is not set, return false.
ConnectDBNoUri(r) ==
  /\ AtEnsure(r)
  /\ ~isDatabaseConnected
  /\ ~mongoUri
  /\ isDatabaseConnected' = FALSE
  /\ Ensured(r, FALSE)
  /\ UNCHANGED <<readyState, mongoUri, converterVars>>

\* connectDB: mongoose.connection.readyState === 1, return true.
ConnectDBAlreadyConnected(r) ==
  /\ AtEnsure(r)
  /\ ~isDatabaseConnected
  /\ mongoUri
  /\ readyState = 1
  /\ isDatabaseConnected' = TRUE
  /\ Ensured(r, TRUE)
  /\ UNCHANGED <<readyState, mongoUri, converterVars>>

\* connectDB: await mongoose.connect(mongoUri, ...). The flag was read as
\* false; the request waits for the connection.
MongooseConnect(r) ==
  /\ AtEnsure(r)
  /\ ~isDatabaseConnected
  /\ mongoUri
  /\ readyState # 1
  /\ Handle(r, [requests[r] EXCEPT !.pc = "connecting"])

\* mongoose.connect resolves: connectDB returns true and ensureDBConnection
\* assigns it to the flag.
MongooseConnectResolves(r) ==
  /\ requests[r].pc = "connecting"
  /\ readyState' = 1
  /\ isDatabaseConnected' = TRUE
  /\ Ensured(r, TRUE)
  /\ UNCHANGED <<mongoUri, converterVars>>

\* mongoose.connect rejects: the catch of connectDB returns false and
\* ensureDBConnection assigns it to the flag.
MongooseConnectRejects(r) ==
  /\ requests[r].pc = "connecting"
  /\ isDatabaseConnected' = FALSE
  /\ Ensured(r, FALSE)
  /\ UNCHANGED <<readyState, mongoUri, converterVars>>

\* ------------------------------------------- saving and the success answers

\* else: the database is not connected, the notes are returned unsaved.
AnswerNotConnected(r) ==
  /\ requests[r].route = "POST /generate-notes"
  /\ requests[r].pc = "ensured"
  /\ ~requests[r].dbConnected
  /\ Handle(r, Send(requests[r],
                    SuccessResponse(requests[r], Null, "database_status")))

\* if (dbConnected) try { const savedNote = await saveNotes(noteData)
SaveNotes(r) ==
  /\ requests[r].route = "POST /generate-notes"
  /\ requests[r].pc = "ensured"
  /\ requests[r].dbConnected
  /\ Handle(r, [requests[r] EXCEPT !.pc = "saving"])

\* note.save() resolves: the answer carries savedNote._id.
SaveResolves(r) ==
  /\ requests[r].pc = "saving"
  /\ Handle(r, Send(requests[r], SuccessResponse(requests[r], ObjectId, "saved_at")))

\* The save rejected and nothing caught it before the handler's outer catch.
SaveRejectsOuterCatch(r) ==
  /\ requests[r].pc = "saving"
  /\ Handle(r, Send([requests[r] EXCEPT !.saveFailed = TRUE],
                    ErrorResponse(500, "generation failed")))

\* note.save() rejects: saveNotes rethrows, catch (dbError) answers with the
\* notes and note_id: null.
SaveRejects(r) ==
  /\ requests[r].pc = "saving"
  /\ Handle(r, Send([requests[r] EXCEPT !.saveFailed = TRUE],
                    SuccessResponse(requests[r], Null, "save_error")))

\* The response has gone out; the slot takes the next request.
RequestEnds(r) ==
  /\ requests[r].pc = "finished"
  /\ Handle(r, IdleRequest)

\* ------------------------------------------------------ the server's runs

\* No call on the converter's state machine is in progress: the handler's
\* calls of the converter are the operators above.
ServerInit ==
  /\ fn = "none"
  /\ arg = Undefined
  /\ useGrade2 = TRUE
  /\ pc = "done"
  /\ text = <<>>
  /\ i = 0
  /\ inNumber = FALSE
  /\ result = <<>>
  /\ units = <<>>
  /\ lines = <<>>
  /\ nextLine = 1
  /\ segments = <<>>
  /\ ret = Undefined
  /\ converter = constructor
  /\ lastScan = [i |-> 0, inNumber |-> FALSE]
  /\ seen = [c \in AgainCalls |-> Undefined]
  /\ ServerStart
  /\ mongoUri \in BOOLEAN

ServerNext ==
  \E r \in Requests :
    \/ ReceiveGenerateNotes(r) \/ DetectLanguageAndSubject(r)
    \/ EnglishResolves(r) \/ EnglishRejects(r)
    \/ HindiResolves(r) \/ HindiRejects(r)
    \/ ReceiveApiNotes(r) \/ ApiNotesUnavailable(r) \/ ApiNotesNext(r)
    \/ EnsureFlagSet(r) \/ ConnectDBNoUri(r) \/ ConnectDBAlreadyConnected(r)
    \/ MongooseConnect(r) \/ MongooseConnectResolves(r) \/ MongooseConnectRejects(r)
    \/ AnswerNotConnected(r) \/ SaveNotes(r) \/ SaveResolves(r) \/ SaveRejects(r)
    \/ RequestEnds(r)

ServerSpec == ServerInit /\ [][ServerNext]_vars

\* ------------------------------------------------- properties of the server

\* Request r has its multiLanguageResults: generateMultiLanguageNotes returned.
Generated(r) == requests[r].braille # Undefined

\* The text is empty or has a code unit that is neither a cell nor white space.
EmptyOrOutsideBraille(s) ==
  s = <<>> \/ \E k \in 1..Len(s) : ~CellOrWhitespace(s[k])

\* The answer request r has sent, once it has finished.
Answer(r) == requests[r].responses[1]

\* C27: the braille field generateMultiLanguageNotes returns is
\* convertAcademicNotes(english) when that string is valid Braille and
\* textToBraille(english, true) otherwise; the fallback is taken exactly when
\* the formatted result is empty or has a character that is neither in the
\* Braille range nor white space; the fallback value is returned as it is,
\* valid or not, and is the braille the answer carries.
C27_BrailleFieldFallback ==
  \A r \in Requests :
    Generated(r) =>
      LET english == requests[r].english
          formatted == convertAcademicNotes(english)
          invalid == EmptyOrOutsideBraille(formatted.str)
      IN  /\ requests[r].fallback <=> invalid
          /\ requests[r].braille =
               IF invalid THEN textToBraille(english, TRUE) ELSE formatted
          /\ (requests[r].pc = "finished" /\ Answer(r).code = 200) =>
               Answer(r).generated_notes.braille = requests[r].braille

\* C27 witness: for the English notes "# " U+00E9 the title line keeps U+00C9,
\* the fallback is taken, and its value '#' cell, space, U+00E9 is answered
\* although it is not valid Braille either.
C27_Witness ==
  \E r \in Requests :
    /\ requests[r].pc = "finished"
    /\ requests[r].english = Str(<<35, 32, 233>>)
    /\ requests[r].fallback
    /\ convertAcademicNotes(requests[r].english) # requests[r].braille
    /\ requests[r].braille = Str(<<10300, 32, 233>>)
    /\ ~isValidBraille(requests[r].braille)
    /\ Answer(r).status = "success"
    /\ Answer(r).generated_notes.braille = Str(<<10300, 32, 233>>)

\* C28: once isDatabaseConnected is true no step sets it back to false (and so
\* ensureDBConnection keeps returning true without calling connectDB).
C28_FlagNeverReset == [][isDatabaseConnected => isDatabaseConnected']_vars

\* C29: a POST /generate-notes whose notes were generated sends nothing until
\* it finishes and then has sent exactly one answer, with code 200, status
\* "success" and the english, hindi and braille notes generated, whether the
\* database was connected, was not connected, or the save threw; note_id is
\* null when the database was not connected or the save threw, and the id of
\* the saved note otherwise. No request sends more than one response.
C29_SuccessAnswerAlways ==
  \A r \in Requests :
    LET q == requests[r]
    IN  /\ Len(q.responses) <= 1
        /\ (q.route = "POST /generate-notes" /\ Generated(r)) =>
             IF q.pc = "finished"
               THEN /\ Len(q.responses) = 1
                    /\ Answer(r).code = 200
                    /\ Answer(r).status = "success"
                    /\ Answer(r).generated_notes =
                         [english |-> q.english, hindi |-> q.hindi,
                          braille |-> q.braille]
                    /\ (~q.dbConnected \/ q.saveFailed) => Answer(r).note_id = Null
                    /\ (q.dbConnected /\ ~q.saveFailed) => Answer(r).note_id = ObjectId
               ELSE q.responses = <<>>

\* C29 witness: one request was answered after its save threw, another after
\* ensureDBConnection returned false; both answers are "success" with the
\* notes and note_id null.
C29_Witness ==
  \E r1, r2 \in Requests :
    /\ requests[r1].pc = "finished"
    /\ requests[r1].dbConnected
    /\ requests[r1].saveFailed
    /\ Answer(r1) = SuccessResponse(requests[r1], Null, "save_error")
    /\ requests[r2].pc = "finished"
    /\ Generated(r2)
    /\ ~requests[r2].dbConnected
    /\ Answer(r2) = SuccessResponse(requests[r2], Null, "database_status")
    /\ Answer(r2).generated_notes.english = Str(<<116>>)

====
